---- MODULE Spec2Model ----
(***************************************************************************)
(* A model of gdbstub's base command handler                               *)
(* (src/src/gdbstub_impl/ext/base.rs): handle_base, do_vcont and           *)
(* eval_breakpoint_bytecode, together with the Connection it peeks and the *)
(* target it drives.  A response is the sequence of fragments the handler  *)
(* appends to its ResponseWriter, one per write_* call; Body(res) is their *)
(* concatenation.                                                          *)
(***************************************************************************)
EXTENDS Integers, Sequences, FiniteSets, TLC

\* ------------------------------------------------------------------ bounds
\* Thread ids a multi-thread target reports are 1..MaxTid.
MaxTid == 2
\* Longest vCont action list.
MaxActions == 2
\* Most check_gdb_interrupt calls a target makes during one resume.
MaxPolls == 2
\* Most bytes the client has in flight while the target runs.
MaxPending == 2
\* Most condition bytecodes attached to one address.
MaxCond == 2
\* Most command bytecodes attached to one address.
MaxCmd == 1
\* Most calls of resume within one request (the re-resume loop).
MaxResumes == 2

\* ------------------------------------------------------- program constants
SINGLE_THREAD_TID == 1
FAKE_PID == 1
\* The interrupt byte.
INTERRUPT == 3

Tids == 1 .. MaxTid

\* ------------------------------------------------------------ ResponseWriter
HexDigit(d) ==
    CASE d = 0 -> "0" [] d = 1 -> "1" [] d = 2 -> "2" [] d = 3 -> "3"
      [] d = 4 -> "4" [] d = 5 -> "5" [] d = 6 -> "6" [] d = 7 -> "7"
      [] d = 8 -> "8" [] d = 9 -> "9" [] d = 10 -> "a" [] d = 11 -> "b"
      [] d = 12 -> "c" [] d = 13 -> "d" [] d = 14 -> "e" [] d = 15 -> "f"

RECURSIVE HexNum(_)
\* write_num: the lowercase hex of an integer, without leading zeros.
HexNum(n) == IF n < 16 THEN HexDigit(n) ELSE HexNum(n \div 16) \o HexDigit(n % 16)

\* write_thread_id with a pid: p<pid>.<tid>, both in hex.
ThreadIdStr(pid, tid) == "p" \o HexNum(pid) \o "." \o HexNum(tid)

RECURSIVE Body(_)
\* The body of the packet: the fragments in the order they were written.
Body(frags) == IF frags = <<>> THEN "" ELSE Head(frags) \o Body(Tail(frags))

Range(s) == {s[i] : i \in 1 .. Len(s)}


\* ------------------------------------------------------------------- types
\* IdKind (the thread part of a parsed ThreadId) and TidSelector share a shape.
IdAny == [k |-> "Any", id |-> 0]
IdAll == [k |-> "All", id |-> 0]
IdWithID(t) == [k |-> "WithID", id |-> t]
\* A vCont action that names no thread.
NoThread == [k |-> "None", id |-> 0]
SelAll == [k |-> "All", id |-> 0]
SelWithID(t) == [k |-> "WithID", id |-> t]

\* The fields of a parsed packet: the thread of `H` and `T`, the register of
\* `P`, the pid of `qAttached`, the offset and length of `qXfer`, and the
\* address, the length and the size of the scratch buffer of `m`.
Args(thread, id, addr, len) ==
    [thread |-> thread, id |-> id, addr |-> addr, len |-> len, buf |-> 0]
MemArgs(addr, len, B) == [Args(NoThread, 0, addr, len) EXCEPT !.buf = B]
NoArgs == Args(NoThread, 0, 0, 0)
OnThread(thread) == Args(thread, 0, 0, 0)

\* A client reading the target description in chunks of len: the offset of
\* its next request, the text it has so far, and the prefix and the size of
\* each page it was sent.
Xfer(len) == [len |-> len, offset |-> 0, got |-> <<>>, pages |-> <<>>]
NoXfer == Xfer(0)

\* What a call on a Connection returned: the method, the implementation it
\* was made on, Ok or Err, the byte of an Ok (0 where there is none), the
\* count recv reported (-1: no recv returned one) and the error of an Err.
IoResult(op, ok, val, n, e) == [op |-> op, via |-> "-", ok |-> ok, val |-> val, n |-> n, err |-> e]
NoResult == IoResult("-", TRUE, 0, -1, "-")
\* A socket: the bytes received and not yet read, whether the peer has closed,
\* the O_NONBLOCK flag, all the peer has sent, all that was read, and what
\* the last call returned.
Sock(queue, closed) ==
    [queue |-> queue, closed |-> closed, nonblocking |-> FALSE, sent |-> queue,
     got |-> <<>>, last |-> NoResult]
NoSock == Sock(<<>>, FALSE)

IdKinds == {IdAny, IdAll} \cup {IdWithID(t) : t \in Tids}
TidSelectors == {SelAll} \cup {SelWithID(t) : t \in Tids}

\* The kinds of a vCont action: c, s, C<sig>, S<sig>.
VContKinds == {"Continue", "Step", "ContinueWithSig", "StepWithSig"}
\* An element of the parsed action list: None (a malformed action) or an action.
Malformed == [ok |-> FALSE, kind |-> "-", thread |-> NoThread]
VContAction(kind, thread) == [ok |-> TRUE, kind |-> kind, thread |-> thread]
RawActions ==
    {Malformed} \cup
    {VContAction(kd, th) : kd \in VContKinds, th \in IdKinds \cup {NoThread}}
ActionLists == UNION {[1 .. n -> RawActions] : n \in 1 .. MaxActions}

\* Actions::new_continue / Actions::new_step: one action for one thread.
NewContinue(thread) == <<VContAction("Continue", thread)>>
NewStep(thread) == <<VContAction("Step", thread)>>

\* Stop reasons of the multi-thread API (ThreadStopReason).
WatchKinds == {"Write", "Read", "ReadWrite"}
SignalCodes == {5, 171}
WatchAddrs == {16, 4096}
Stop(r, tid, kind, addr, code) ==
    [r |-> r, tid |-> tid, kind |-> kind, addr |-> addr, code |-> code]
NoStop == Stop("-", 0, "-", 0, 0)
\* The example target: whether its program ever raises an event, whether the
\* build checks arithmetic overflow, the counter of resume's Continue loop,
\* and the stop resume is about to return (NoStop: it is still running).
Emu(program, checks) ==
    [program |-> program, checks |-> checks, cycles |-> 0, ret |-> NoStop]
NoEmu == Emu("-", FALSE)
BreakStops(tids) ==
    {Stop(r, t, "-", 0, 0) : r \in {"SwBreak", "HwBreak"}, t \in tids} \cup
    {Stop("Watch", t, wk, a, 0) : t \in tids, wk \in WatchKinds, a \in WatchAddrs}
PlainStops ==
    {Stop(r, 0, "-", 0, 0) : r \in {"DoneStep", "GdbInterrupt", "Halted"}} \cup
    {Stop("Signal", 0, "-", 0, c) : c \in SignalCodes}
IsBreak(sr) == sr.r \in {"SwBreak", "HwBreak", "Watch"}

\* HandlerStatus, or the Error the handler returned.
Handled == [k |-> "Handled", v |-> "-", code |-> 0]
NeedsOK == [k |-> "NeedsOK", v |-> "-", code |-> 0]
Disconnect(reason) == [k |-> "Disconnect", v |-> reason, code |-> 0]
Error(e) == [k |-> "Err", v |-> e, code |-> 0]
NonFatalError(c) == [k |-> "Err", v |-> "NonFatalError", code |-> c]
NoStatus == [k |-> "None", v |-> "-", code |-> 0]
\* The handler did not return: an arithmetic overflow panicked.
Panicked == [k |-> "Panic", v |-> "overflow", code |-> 0]
Running == [k |-> "Running", v |-> "-", code |-> 0]

\* A call into the target: the operation, the tid handed over (0: the
\* single-thread API, which takes none), the address and length of a memory
\* access, for resume the actions the target was given, and what the target
\* returned where the handler looks at it ("-": not recorded).
Call(op, tid, addr, len, arg) ==
    [op |-> op, tid |-> tid, addr |-> addr, len |-> len, arg |-> arg, pid |-> 0,
     ret |-> "-"]
\* The call, with what the target returned from it.
Returned(call, out) == [call EXCEPT !.ret = out]

MemOps == {"read_registers", "write_registers", "read_addrs", "write_addrs",
           "read_register", "write_register"}


\* ------------------------------------------------------------ capabilities
\* What each capability accessor of the target and of its architecture
\* returns (TRUE: Some).  multithread tells which variant base_ops() yields;
\* executor_gdbstub is breakpoint_bytecode_executor().is_gdbstub().
CapNames == {"multithread", "extended_mode", "configure_aslr", "configure_env",
             "configure_startup_shell", "configure_working_dir", "agent",
             "breakpoints", "sw_breakpoint", "hw_breakpoint", "hw_watchpoint",
             "breakpoint_agent", "executor_gdbstub", "target_description_xml"}
AllCaps == [CapNames -> BOOLEAN]
NoCaps == [n \in CapNames |-> FALSE]
\* The targets of a session: single- or multi-thread, with or without extended
\* mode, and no breakpoints, breakpoints without an agent, or an agent whose
\* bytecode runs on the target or in the stub.
SessionCaps ==
    {[NoCaps EXCEPT !["multithread"] = mt, !["extended_mode"] = xm,
                    !["breakpoints"] = bp[1], !["sw_breakpoint"] = bp[1],
                    !["breakpoint_agent"] = bp[2], !["executor_gdbstub"] = bp[3]] :
        mt \in BOOLEAN, xm \in BOOLEAN,
        bp \in {<<FALSE, FALSE, FALSE>>, <<TRUE, FALSE, FALSE>>,
                <<TRUE, TRUE, FALSE>>, <<TRUE, TRUE, TRUE>>}}

\* target.breakpoints().and_then(|bp_ops| bp_ops.breakpoint_agent())
BreakpointAgent(c) == c["breakpoints"] /\ c["breakpoint_agent"]

VARIABLES
    caps,                \* the target's capabilities (fixed for a session)
    packet_buffer_len,   \* the length of the session's packet buffer
    no_ack_mode, current_mem_tid, current_resume_tid,   \* GdbStubImpl's fields
    cmd,                 \* the command being handled ("-": none)
    args,                \* the fields of the parsed packet the claims look at
    xfer,                \* the client's reassembly of the target description
    emu,                 \* the example target: its program, build and loop counter
    sock,                \* a UnixStream seen through the Connection trait
    pc,                  \* "idle" (a packet is read, not yet handled), inside do_vcont
                         \* ("resume", "eval_regs", "eval_cond", "eval_cmd"),
                         \* "returned" (the handler is back, the reply not yet
                         \* flushed) or "done" (the session has ended)
    res,                 \* the fragments written to the ResponseWriter
    status,              \* what the handler returned
    calls,               \* the calls made into the target for this request
    pending, conn_err,   \* the connection: bytes not yet read; peek fails
    base_actions,        \* do_vcont: the request's action list
    it, err, err2,       \* do_vcont: the iterator's position and the two errors
    polls, last_poll,    \* check_gdb_interrupt: calls so far, the last result
    stop_reason,         \* the stop the target returned
    condition,           \* eval_breakpoint_bytecode's local condition
    evals,               \* what evaluate returned for each condition bytecode of
                         \* the last breakpoint stop, in the order the target
                         \* handed them over
    n_cmd,               \* the command bytecodes handed over so far
    eval_err,            \* eval_breakpoint_bytecode's local err
    skipped,             \* stops this request skipped silently
    opkts,               \* `O` packets flushed during this request
    attached_pids,       \* the attached-pids map (pid -> was attached)
    xml,                 \* the architecture's target description, as characters
    acked,               \* whether the packet just received was answered `+`
    reported_mem, reported_resume   \* history: the thread of the last `T05`
                         \* reply not yet followed by an Hg / Hc (0: none)

vars == <<caps, packet_buffer_len, no_ack_mode, current_mem_tid,
          current_resume_tid, cmd, args, xfer, emu, sock,
          pc, res, status, calls, pending,
          conn_err, base_actions, it, err, err2, polls, last_poll, stop_reason,
          condition, evals, n_cmd, eval_err, skipped, opkts, attached_pids, xml,
          acked, reported_mem, reported_resume>>

config == <<caps, packet_buffer_len, attached_pids, xml>>
tids == <<current_mem_tid, current_resume_tid>>
conn == <<pending, conn_err>>
history == <<reported_mem, reported_resume>>
\* What lies outside the stub: the client's bookkeeping, the example target
\* and the socket under a Connection.
outside == <<xfer, emu, sock>>
\* The locals of do_vcont and eval_breakpoint_bytecode.
locals == <<base_actions, it, err, err2, polls, last_poll, stop_reason,
            condition, evals, n_cmd, eval_err, skipped, opkts>>

LocalsAtRest ==
    /\ base_actions = <<>> /\ it = 0 /\ err = "Ok" /\ err2 = "Ok"
    /\ polls = 0 /\ last_poll = FALSE /\ stop_reason = NoStop
    /\ condition = "None" /\ evals = <<>> /\ n_cmd = 0 /\ eval_err = "Ok"
    /\ skipped = 0 /\ opkts = 0

\* A target description with white space around it and a character that
\* write_binary escapes.
SampleXml == <<" ", "<", "}", ">", "\n">>

InitSession ==
    /\ no_ack_mode = FALSE
    /\ current_mem_tid = SINGLE_THREAD_TID
    /\ current_resume_tid = SelAll
    /\ cmd = "-" /\ args = NoArgs /\ pc = "idle"
    /\ res = <<>> /\ status = NoStatus /\ calls = <<>>
    /\ pending = <<>> /\ conn_err = FALSE
    /\ LocalsAtRest
    /\ acked = TRUE /\ reported_mem = 0 /\ reported_resume = 0

\* A session starts with a target of `targets` and a packet buffer whose
\* length is one of `lens`.
InitOver(targets, lens) ==
    /\ caps \in targets
    /\ packet_buffer_len \in lens
    /\ attached_pids = <<>>
    /\ xml = IF caps["target_description_xml"] THEN SampleXml ELSE <<>>
    /\ xfer = NoXfer
    /\ emu = NoEmu
    /\ sock = NoSock
    /\ InitSession

Init == InitOver(SessionCaps, {1024})


\* ------------------------------------------------------------- the session
\* What a target operation returns through TargetResult.
TargetOutcomes == {"Ok", "NonFatal", "Fatal"}

\* handle_error(): a fatal target error ends the request with TargetError, a
\* non-fatal one with NonFatalError(1).
HandleError(out) == IF out = "Fatal" THEN Error("TargetError") ELSE NonFatalError(1)

\* The session ends on a Disconnect and on every error but NonFatalError.
Ends(st) == st.k \in {"Disconnect", "Panic"} \/ (st.k = "Err" /\ st.v # "NonFatalError")

\* The reply the dispatcher sends for a finished request: the body the
\* handler wrote, `OK` appended for NeedsOK, `E<code>` for a non-fatal error.
Reply ==
    CASE status.k = "NeedsOK" -> Body(res) \o "OK"
      [] status.k = "Err" /\ status.v = "NonFatalError" -> "E" \o HexNum(status.code)
      [] status.k = "Err" -> ""
      [] OTHER -> Body(res)

\* handle_base is entered with the packet the main loop has read.
DispatchWith(name, a) ==
    /\ pc = "idle"
    /\ cmd' = name
    /\ args' = a

Dispatch(name) == DispatchWith(name, NoArgs)

\* The handler returns st, having written body and made the calls callz.
Return(st, body, callz) ==
    /\ res' = body
    /\ status' = st
    /\ calls' = callz
    /\ pc' = IF Ends(st) THEN "done" ELSE "returned"

\* The tid a register or memory operation is given: current_mem_tid by the
\* multi-thread API, none (0) by the single-thread API.
MemTid == IF caps["multithread"] THEN current_mem_tid ELSE 0

\* ---------------------------------------------------------------- qSupported
Feature(gate, strs) == IF gate THEN strs ELSE <<>>

\* qSupported with `hwbreak+` gated on hw_breakpoint alone: the fault of
\* forgetting that a watchpoint-only target needs it too.
QSupportedReplyHwOnly(c, len) ==
    <<"PacketSize=", HexNum(len),
      ";vContSupported+", ";multiprocess+", ";QStartNoAckMode+">>
    \o Feature(c["extended_mode"],
           Feature(c["configure_aslr"], <<";QDisableRandomization+">>)
        \o Feature(c["configure_env"],
                   <<";QEnvironmentHexEncoded+", ";QEnvironmentUnset+",
                     ";QEnvironmentReset+">>)
        \o Feature(c["configure_startup_shell"], <<";QStartupWithShell+">>)
        \o Feature(c["configure_working_dir"], <<";QSetWorkingDir+">>))
    \o Feature(c["agent"], <<";QAgent+">>)
    \o Feature(c["breakpoints"],
           Feature(c["sw_breakpoint"], <<";swbreak+">>)
        \o Feature(c["hw_breakpoint"], <<";hwbreak+">>)
        \o Feature(c["breakpoint_agent"],
                   <<";BreakpointCommands+", ";ConditionalBreakpoints+">>))
    \o Feature(c["target_description_xml"], <<";qXfer:features:read+">>)

QSupportedReply(c, len) ==
    <<"PacketSize=", HexNum(len),
      ";vContSupported+", ";multiprocess+", ";QStartNoAckMode+">>
    \o Feature(c["extended_mode"],
           Feature(c["configure_aslr"], <<";QDisableRandomization+">>)
        \o Feature(c["configure_env"],
                   <<";QEnvironmentHexEncoded+", ";QEnvironmentUnset+",
                     ";QEnvironmentReset+">>)
        \o Feature(c["configure_startup_shell"], <<";QStartupWithShell+">>)
        \o Feature(c["configure_working_dir"], <<";QSetWorkingDir+">>))
    \o Feature(c["agent"], <<";QAgent+">>)
    \o Feature(c["breakpoints"],
           Feature(c["sw_breakpoint"], <<";swbreak+">>)
        \o Feature(c["hw_breakpoint"] \/ c["hw_watchpoint"], <<";hwbreak+">>)
        \o Feature(c["breakpoint_agent"],
                   <<";BreakpointCommands+", ";ConditionalBreakpoints+">>))
    \o Feature(c["target_description_xml"], <<";qXfer:features:read+">>)

HandleQSupported ==
    /\ Dispatch("qSupported")
    /\ Return(Handled, QSupportedReply(caps, packet_buffer_len), <<>>)
    /\ UNCHANGED <<config, outside, no_ack_mode, tids, locals, conn, acked, history>>

\* QStartNoAckMode answered `OK` without the flag being set.
HandleQStartNoAckModeUnset ==
    /\ Dispatch("QStartNoAckMode")
    /\ Return(NeedsOK, <<>>, <<>>)
    /\ UNCHANGED <<config, outside, no_ack_mode, tids, locals, conn, acked, history>>

HandleQStartNoAckMode ==
    /\ Dispatch("QStartNoAckMode")
    /\ no_ack_mode' = TRUE
    /\ Return(NeedsOK, <<>>, <<>>)
    /\ UNCHANGED <<config, outside, tids, locals, conn, acked, history>>

\* `?` taken for a fresh start: the two thread selectors are set back.
HandleQuestionMarkResets ==
    /\ Dispatch("?")
    /\ Return(Handled, <<"S05">>, <<>>)
    /\ current_mem_tid' = SINGLE_THREAD_TID
    /\ current_resume_tid' = SelAll
    /\ UNCHANGED <<config, outside, no_ack_mode, locals, conn, acked, history>>

HandleQuestionMark ==
    /\ Dispatch("?")
    /\ Return(Handled, <<"S05">>, <<>>)
    /\ UNCHANGED <<config, outside, no_ack_mode, tids, locals, conn, acked, history>>


\* -------------------------------------------------------- qXfer:features:read
IsSpace(c) == c \in {" ", "\n", "\t"}

RECURSIVE TrimStart(_)
TrimStart(cs) == IF cs # <<>> /\ IsSpace(Head(cs)) THEN TrimStart(Tail(cs)) ELSE cs

RECURSIVE TrimEnd(_)
TrimEnd(cs) ==
    IF cs # <<>> /\ IsSpace(cs[Len(cs)]) THEN TrimEnd(SubSeq(cs, 1, Len(cs) - 1)) ELSE cs

\* str::trim
Trim(cs) == TrimEnd(TrimStart(cs))

\* write_binary: `#`, `$`, `}` and `*` are written as `}` and the byte XOR 0x20.
Escape(c) ==
    CASE c = "}" -> "}]"
      [] c = "*" -> "}\n"
      [] OTHER -> c

RECURSIVE WriteBinary(_)
WriteBinary(cs) == IF cs = <<>> THEN "" ELSE Escape(Head(cs)) \o WriteBinary(Tail(cs))

\* The slice xml[from..to) of the trimmed text (0-based, as in the code).
Slice(cs, from, to) == SubSeq(cs, from + 1, to)

\* A pagination whose last page stops one byte short of the end.
XferReplyShort(text, offset, len) ==
    LET t == Trim(text) IN
    IF offset >= Len(t) THEN <<"l">>
    ELSE IF offset + len >= Len(t) THEN <<"l", WriteBinary(Slice(t, offset, Len(t) - 1))>>
    ELSE <<"m", WriteBinary(Slice(t, offset, offset + len))>>

XferReply(text, offset, len) ==
    LET t == Trim(text) IN
    IF offset >= Len(t) THEN <<"l">>
    ELSE IF offset + len >= Len(t) THEN <<"l", WriteBinary(Slice(t, offset, Len(t)))>>
    ELSE <<"m", WriteBinary(Slice(t, offset, offset + len))>>

MaxXferLen == 2

QXferFeaturesRead(offset, len) ==
    /\ DispatchWith("qXferFeaturesRead", Args(NoThread, 0, offset, len))
    /\ IF caps["target_description_xml"]
       THEN Return(Handled, XferReply(xml, offset, len), <<>>)
       ELSE Return(Error("PacketUnexpected"), <<>>, <<>>)
    /\ UNCHANGED <<config, outside, no_ack_mode, tids, locals, conn, acked, history>>

HandleQXferFeaturesRead ==
    \E offset \in 0 .. Len(xml) + 1, len \in 0 .. MaxXferLen :
        QXferFeaturesRead(offset, len)

\* ------------------------------------------------------------------ qAttached
\* The build's `alloc` feature (on by default): the stub keeps attached_pids.
FeatureAlloc == TRUE
MaxPid == 2
Pids == 1 .. MaxPid
NoPid == 0

KillCall(pid) ==
    [op |-> "kill", tid |-> 0, addr |-> 0, len |-> 0, arg |-> <<>>, pid |-> pid,
     ret |-> "-"]
QueryCall(pid) ==
    [op |-> "query_if_attached", tid |-> 0, addr |-> 0, len |-> 0, arg |-> <<>>,
     pid |-> pid, ret |-> "-"]

\* A qAttached that takes a pid it does not know for a process it started.
HandleQAttachedUnknownStarted ==
    /\ \E pid \in Pids \cup {NoPid} :
          /\ DispatchWith("qAttached", Args(NoThread, pid, 0, 0))
          /\ IF ~caps["extended_mode"]
             THEN Return(Handled, <<"1">>, <<>>)
             ELSE IF pid = NoPid
             THEN Return(Error("PacketUnexpected"), <<>>, <<>>)
             ELSE IF FeatureAlloc
             THEN LET is_attached ==
                          IF pid \in DOMAIN attached_pids THEN attached_pids[pid] ELSE FALSE
                  IN Return(Handled, <<IF is_attached THEN "1" ELSE "0">>, <<>>)
             ELSE \E out \in TargetOutcomes, was \in BOOLEAN :
                     IF out = "Ok"
                     THEN Return(Handled, <<IF was THEN "1" ELSE "0">>,
                                 <<QueryCall(pid)>>)
                     ELSE Return(HandleError(out), <<>>, <<QueryCall(pid)>>)
    /\ UNCHANGED <<config, outside, no_ack_mode, tids, locals, conn, acked, history>>

HandleQAttached ==
    /\ \E pid \in Pids \cup {NoPid} :
          /\ DispatchWith("qAttached", Args(NoThread, pid, 0, 0))
          /\ IF ~caps["extended_mode"]
             THEN Return(Handled, <<"1">>, <<>>)
             ELSE IF pid = NoPid
             THEN Return(Error("PacketUnexpected"), <<>>, <<>>)
             ELSE IF FeatureAlloc
             THEN LET is_attached ==
                          IF pid \in DOMAIN attached_pids THEN attached_pids[pid] ELSE TRUE
                  IN Return(Handled, <<IF is_attached THEN "1" ELSE "0">>, <<>>)
             ELSE \E out \in TargetOutcomes, was \in BOOLEAN :
                     IF out = "Ok"
                     THEN Return(Handled, <<IF was THEN "1" ELSE "0">>,
                                 <<QueryCall(pid)>>)
                     ELSE Return(HandleError(out), <<>>, <<QueryCall(pid)>>)
    /\ UNCHANGED <<config, outside, no_ack_mode, tids, locals, conn, acked, history>>


\* ---------------------------------------------------- registers and memory
\* write_hex_buf: two lowercase hex digits per byte.
HexByte(b) == HexDigit(b \div 16) \o HexDigit(b % 16)

RECURSIVE HexBuf(_)
HexBuf(bytes) == IF bytes = <<>> THEN "" ELSE HexByte(Head(bytes)) \o HexBuf(Tail(bytes))

\* The register files a target hands back, as gdb_serialize walks them: a
\* byte, or -1 for a byte that is not available.
RegFiles == {<<1, 0>>, <<222, -1>>}
\* The values of a single register.
RegValues == {<<0, 128>>, <<239, 190>>}

RECURSIVE SerializeRegs(_)
\* regs.gdb_serialize: one write per byte, `xx` for an unavailable one.
SerializeRegs(regs) ==
    IF regs = <<>> THEN <<>>
    ELSE <<IF Head(regs) >= 0 THEN HexByte(Head(regs)) ELSE "xx">>
         \o SerializeRegs(Tail(regs))

HandleG ==
    /\ Dispatch("g")
    /\ \E out \in TargetOutcomes, regs \in RegFiles :
          LET call == Call("read_registers", MemTid, 0, 0, <<>>) IN
          IF out = "Ok"
          THEN Return(Handled, SerializeRegs(regs), <<call>>)
          ELSE Return(HandleError(out), <<>>, <<call>>)
    /\ UNCHANGED <<config, outside, no_ack_mode, tids, locals, conn, acked, history>>

HandleUpperG ==
    /\ Dispatch("G")
    /\ \E deserializes \in BOOLEAN, out \in TargetOutcomes :
          LET call == Call("write_registers", MemTid, 0, 0, <<>>) IN
          IF ~deserializes
          THEN Return(Error("TargetMismatch"), <<>>, <<>>)
          ELSE IF out = "Ok"
          THEN Return(NeedsOK, <<>>, <<call>>)
          ELSE Return(HandleError(out), <<>>, <<call>>)
    /\ UNCHANGED <<config, outside, no_ack_mode, tids, locals, conn, acked, history>>

\* The target's memory.
TargetMem(a) ==
    CASE a = 4096 -> 222 [] a = 4097 -> 173 [] a = 4098 -> 190 [] a = 4099 -> 239
      [] OTHER -> a % 256

MemData(addr, n) == [j \in 1 .. n |-> TargetMem(addr + j - 1)]

\* The scratch buffer of `m`: what the packet buffer has left after the command.
MaxBuf == 2
\* The longest read or write asked for.
MaxLen == 3
MemAddrs == {4096, 4098}
\* An address that does not fit the architecture's Usize.
TooWide == -1

Min(a, b) == IF a < b THEN a ELSE b

\* <T::Arch as Arch>::Usize: here an architecture with 16-bit addresses.
UsizeBits == 16
AddrSpace == 2 ^ UsizeBits
\* Addresses at the top of the address space.
TopAddrs == {AddrSpace - 2}

RECURSIVE ReadLoopStuck(_, _, _, _, _, _, _, _)
\* A loop that reads every chunk at the address of the first one.
ReadLoopStuck(addr, n, i, B, outs, wraps, callz, frags) ==
    IF n = 0 THEN [calls |-> callz, frags |-> frags, st |-> Handled]
    ELSE LET chunk_size == Min(n, B)
             out == outs[Len(callz) + 1]
             call == Returned(Call("read_addrs", MemTid, addr, chunk_size, <<>>), out)
         IN IF out # "Ok"
            THEN [calls |-> Append(callz, call), frags |-> frags, st |-> HandleError(out)]
            ELSE ReadLoopStuck(addr, n - chunk_size, i + chunk_size, B, outs, wraps,
                               Append(callz, call),
                               Append(frags, HexBuf(MemData(addr, chunk_size))))

RECURSIVE ReadLoop(_, _, _, _, _, _, _, _)
\* The loop of `m`: n bytes are left, i are done, buf holds B; the target's
\* answer to the k-th read_addrs is outs[k].  `addr + i` is an addition of
\* Usize: past the top of the address space it wraps in a build without
\* overflow checks (wraps) and panics in one with them.  Yields the calls
\* made, the fragments written and the status.
ReadLoop(addr, n, i, B, outs, wraps, callz, frags) ==
    IF n = 0 THEN [calls |-> callz, frags |-> frags, st |-> Handled]
    ELSE IF addr + i >= AddrSpace /\ ~wraps
    THEN [calls |-> callz, frags |-> frags, st |-> Panicked]
    ELSE LET chunk_size == Min(n, B)
             at == (addr + i) % AddrSpace
             out == outs[Len(callz) + 1]
             call == Returned(Call("read_addrs", MemTid, at, chunk_size, <<>>), out)
         IN IF out # "Ok"
            THEN [calls |-> Append(callz, call), frags |-> frags, st |-> HandleError(out)]
            ELSE ReadLoop(addr, n - chunk_size, i + chunk_size, B, outs, wraps,
                          Append(callz, call),
                          Append(frags, HexBuf(MemData(at, chunk_size))))

\* The answers a target gives to the reads of one `m` of n bytes: all
\* succeed, or one fails.
ReadOutcomesFor(n) ==
    {[k \in 1 .. n |-> "Ok"]} \cup
    {[k \in 1 .. n |-> IF k = f THEN o ELSE "Ok"] :
        f \in 1 .. n, o \in {"NonFatal", "Fatal"}}

\* `m addr,len` with an address of addrs, a length of lens and a scratch
\* buffer of one of the sizes bufs.
ReadMem(addrs, lens, bufs) ==
    /\ \E addr \in addrs, len \in lens, B \in bufs, wraps \in BOOLEAN :
          /\ DispatchWith("m", MemArgs(addr, len, B))
          /\ \E outs \in ReadOutcomesFor(len) :
                IF addr = TooWide
                THEN Return(Error("TargetMismatch"), <<>>, <<>>)
                ELSE LET r == ReadLoop(addr, len, 0, B, outs, wraps, <<>>, <<>>)
                     IN Return(r.st, r.frags, r.calls)
    /\ UNCHANGED <<config, outside, no_ack_mode, tids, locals, conn, acked, history>>

HandleM == ReadMem(MemAddrs \cup {TooWide}, 0 .. MaxLen, 1 .. MaxBuf)

HandleUpperM ==
    /\ Dispatch("M")
    /\ \E addr \in MemAddrs \cup {TooWide}, len \in 0 .. MaxLen, out \in TargetOutcomes :
          LET call == Call("write_addrs", MemTid, addr, len, <<>>) IN
          IF addr = TooWide
          THEN Return(Error("TargetMismatch"), <<>>, <<>>)
          ELSE IF out = "Ok"
          THEN Return(NeedsOK, <<>>, <<call>>)
          ELSE Return(HandleError(out), <<>>, <<call>>)
    /\ UNCHANGED <<config, outside, no_ack_mode, tids, locals, conn, acked, history>>

\* RegId::from_raw_id: the raw ids the architecture knows, each RegSize bytes.
KnownRegIds == {0, 15}
RawRegIds == KnownRegIds \cup {99}

HandleP ==
    /\ Dispatch("p")
    /\ \E reg_id \in RawRegIds, out \in TargetOutcomes, val \in RegValues :
          LET call == Call("read_register", MemTid, reg_id, Len(val), <<>>) IN
          IF reg_id \notin KnownRegIds
          THEN Return(Handled, <<>>, <<>>)
          ELSE IF out = "Ok"
          THEN Return(Handled, <<HexBuf(val)>>, <<call>>)
          ELSE Return(HandleError(out), <<>>, <<call>>)
    /\ UNCHANGED <<config, outside, no_ack_mode, tids, locals, conn, acked, history>>

\* A `P` that hands a register id the architecture does not know to the target.
HandleUpperPAsksTarget ==
    /\ \E reg_id \in RawRegIds, out \in TargetOutcomes :
          LET call == Returned(Call("write_register", MemTid, reg_id, 0, <<>>), out) IN
          /\ DispatchWith("P", Args(NoThread, reg_id, 0, 0))
          /\ IF out = "Ok"
             THEN Return(NeedsOK, <<>>, <<call>>)
             ELSE Return(HandleError(out), <<>>, <<call>>)
    /\ UNCHANGED <<config, outside, no_ack_mode, tids, locals, conn, acked, history>>

HandleUpperP ==
    /\ \E reg_id \in RawRegIds, out \in TargetOutcomes :
          LET call == Returned(Call("write_register", MemTid, reg_id, 0, <<>>), out) IN
          /\ DispatchWith("P", Args(NoThread, reg_id, 0, 0))
          /\ IF reg_id \notin KnownRegIds
             THEN Return(NonFatalError(22), <<>>, <<>>)
             ELSE IF out = "Ok"
             THEN Return(NeedsOK, <<>>, <<call>>)
             ELSE Return(HandleError(out), <<>>, <<call>>)
    /\ UNCHANGED <<config, outside, no_ack_mode, tids, locals, conn, acked, history>>


\* ------------------------------------------------------------ kill and detach
\* What target.kill returns: whether the stub should end, or an error.
KillOutcomes == {"Terminate", "KeepAlive", "NonFatal", "Fatal"}

\* Kill that asks the target first whatever its capabilities, and answers
\* `OK` before it disconnects.
HandleKillAlwaysCalls ==
    /\ pc = "idle"
    /\ \E pid \in Pids \cup {NoPid}, out \in KillOutcomes :
          /\ cmd' = IF pid = NoPid THEN "k" ELSE "vKill"
          /\ args' = NoArgs
          /\ LET call == Returned(KillCall(pid), out) IN
             CASE out = "Terminate" -> Return(Disconnect("Kill"), <<"OK">>, <<call>>)
               [] out = "KeepAlive" -> Return(NeedsOK, <<>>, <<call>>)
               [] OTHER -> Return(HandleError(out), <<>>, <<call>>)
    /\ UNCHANGED <<config, outside, no_ack_mode, tids, locals, conn, acked, history>>

\* Kill with the target's answer read the wrong way round: the session ends
\* when the target asks to be kept alive.
HandleKillInverted ==
    /\ pc = "idle"
    /\ \E pid \in Pids \cup {NoPid}, out \in KillOutcomes :
          /\ cmd' = IF pid = NoPid THEN "k" ELSE "vKill"
          /\ args' = NoArgs
          /\ IF ~caps["extended_mode"]
             THEN Return(Disconnect("Kill"), <<>>, <<>>)
             ELSE LET call == Returned(KillCall(pid), out) IN
                  CASE out = "KeepAlive" -> Return(Disconnect("Kill"), <<"OK">>, <<call>>)
                    [] out = "Terminate" -> Return(NeedsOK, <<>>, <<call>>)
                    [] OTHER -> Return(HandleError(out), <<>>, <<call>>)
    /\ UNCHANGED <<config, outside, no_ack_mode, tids, locals, conn, acked, history>>

\* `k` (pid = NoPid) and `vKill;pid`.
HandleKill ==
    /\ pc = "idle"
    /\ \E pid \in Pids \cup {NoPid}, out \in KillOutcomes :
          /\ cmd' = IF pid = NoPid THEN "k" ELSE "vKill"
          /\ args' = NoArgs
          /\ IF ~caps["extended_mode"]
             THEN Return(Disconnect("Kill"), <<>>, <<>>)
             ELSE LET call == Returned(KillCall(pid), out) IN
                  CASE out = "Terminate" -> Return(Disconnect("Kill"), <<"OK">>, <<call>>)
                    [] out = "KeepAlive" -> Return(NeedsOK, <<>>, <<call>>)
                    [] OTHER -> Return(HandleError(out), <<>>, <<call>>)
    /\ UNCHANGED <<config, outside, no_ack_mode, tids, locals, conn, acked, history>>

\* Detach that disconnects without writing OK first.
HandleDNoReply ==
    /\ Dispatch("D")
    /\ Return(Disconnect("Disconnect"), <<>>, <<>>)
    /\ UNCHANGED <<config, outside, no_ack_mode, tids, locals, conn, acked, history>>

\* Detach that writes `OK` and also asks for it: the reply would be OKOK.
HandleDNeedsOK ==
    /\ Dispatch("D")
    /\ Return(NeedsOK, <<"OK">>, <<>>)
    /\ UNCHANGED <<config, outside, no_ack_mode, tids, locals, conn, acked, history>>

HandleD ==
    /\ Dispatch("D")
    /\ Return(Disconnect("Disconnect"), <<"OK">>, <<>>)
    /\ UNCHANGED <<config, outside, no_ack_mode, tids, locals, conn, acked, history>>

\* ------------------------------------------------------------------- threads
\* `Hg` (Op::Other): the thread of later register and memory accesses.
HandleHg ==
    /\ \E thread \in IdKinds :
          /\ DispatchWith("Hg", OnThread(thread))
          /\ CASE thread.k = "Any" ->
                  /\ Return(NeedsOK, <<>>, <<>>)
                  /\ UNCHANGED <<tids, history>>
            [] thread.k = "All" ->
                  /\ Return(Error("PacketUnexpected"), <<>>, <<>>)
                  /\ UNCHANGED <<tids, history>>
            [] thread.k = "WithID" ->
                  /\ current_mem_tid' = thread.id
                  /\ reported_mem' = 0
                  /\ Return(NeedsOK, <<>>, <<>>)
                  /\ UNCHANGED <<current_resume_tid, reported_resume>>
    /\ UNCHANGED <<config, outside, no_ack_mode, locals, conn, acked>>

\* An `Hc` that selects the thread for memory accesses as well.
HandleHcSetsBoth ==
    /\ \E thread \in IdKinds :
          /\ DispatchWith("Hc", OnThread(thread))
          /\ CASE thread.k = "Any" ->
                  /\ Return(NeedsOK, <<>>, <<>>)
                  /\ UNCHANGED <<tids, history>>
            [] thread.k = "All" ->
                  /\ current_resume_tid' = SelAll
                  /\ reported_resume' = 0
                  /\ Return(NeedsOK, <<>>, <<>>)
                  /\ UNCHANGED <<current_mem_tid, reported_mem>>
            [] thread.k = "WithID" ->
                  /\ current_resume_tid' = SelWithID(thread.id)
                  /\ current_mem_tid' = thread.id
                  /\ reported_resume' = 0
                  /\ Return(NeedsOK, <<>>, <<>>)
                  /\ UNCHANGED reported_mem
    /\ UNCHANGED <<config, outside, no_ack_mode, locals, conn, acked>>

\* `Hc` (Op::StepContinue): the thread of later `c` and `s`.
HandleHc ==
    /\ \E thread \in IdKinds :
          /\ DispatchWith("Hc", OnThread(thread))
          /\ CASE thread.k = "Any" ->
                  /\ Return(NeedsOK, <<>>, <<>>)
                  /\ UNCHANGED <<tids, history>>
            [] thread.k = "All" ->
                  /\ current_resume_tid' = SelAll
                  /\ reported_resume' = 0
                  /\ Return(NeedsOK, <<>>, <<>>)
                  /\ UNCHANGED <<current_mem_tid, reported_mem>>
            [] thread.k = "WithID" ->
                  /\ current_resume_tid' = SelWithID(thread.id)
                  /\ reported_resume' = 0
                  /\ Return(NeedsOK, <<>>, <<>>)
                  /\ UNCHANGED <<current_mem_tid, reported_mem>>
    /\ UNCHANGED <<config, outside, no_ack_mode, locals, conn, acked>>

\* The lists a multi-thread target may report its live threads in.
ThreadLists ==
    {ts \in UNION {[1 .. n -> Tids] : n \in 0 .. MaxTid} :
        \A i, j \in 1 .. Len(ts) : i # j => ts[i] # ts[j]}

RECURSIVE ListThreadsCommaAfter(_, _)
\* A callback that writes the comma after each id.
ListThreadsCommaAfter(ts, first) ==
    IF ts = <<>> THEN <<>>
    ELSE <<ThreadIdStr(FAKE_PID, Head(ts)), ",">> \o ListThreadsCommaAfter(Tail(ts), FALSE)

RECURSIVE ListThreads(_, _)
\* The callback of list_active_threads: a comma before every id but the first.
ListThreads(ts, first) ==
    IF ts = <<>> THEN <<>>
    ELSE (IF first THEN <<>> ELSE <<",">>)
         \o <<ThreadIdStr(FAKE_PID, Head(ts))>>
         \o ListThreads(Tail(ts), FALSE)

\* list_active_threads, with the tids the target hands to the callback.
ListCall(ts) == Call("list_active_threads", 0, 0, 0, ts)

HandleQfThreadInfo ==
    /\ Dispatch("qfThreadInfo")
    /\ IF ~caps["multithread"]
       THEN Return(Handled, <<"m", ThreadIdStr(FAKE_PID, SINGLE_THREAD_TID)>>, <<>>)
       ELSE \E ts \in ThreadLists, ok \in BOOLEAN :
               IF ok
               THEN Return(Handled, <<"m">> \o ListThreads(ts, TRUE), <<ListCall(ts)>>)
               ELSE Return(Error("TargetError"), <<"m">> \o ListThreads(ts, TRUE),
                           <<ListCall(ts)>>)
    /\ UNCHANGED <<config, outside, no_ack_mode, tids, locals, conn, acked, history>>

HandleQsThreadInfo ==
    /\ Dispatch("qsThreadInfo")
    /\ Return(Handled, <<"l">>, <<>>)
    /\ UNCHANGED <<config, outside, no_ack_mode, tids, locals, conn, acked, history>>

\* `T thread`: is the thread alive?
HandleT ==
    /\ \E thread \in IdKinds, answer \in {"Alive", "Dead", "Fatal"} :
          LET call == Returned(Call("is_thread_alive", thread.id, 0, 0, <<>>), answer) IN
          /\ DispatchWith("T", OnThread(thread))
          /\ IF thread.k # "WithID"
             THEN Return(Error("PacketUnexpected"), <<>>, <<>>)
             ELSE IF ~caps["multithread"]
             THEN IF thread.id = SINGLE_THREAD_TID
                  THEN Return(NeedsOK, <<>>, <<>>)
                  ELSE Return(NonFatalError(1), <<>>, <<>>)
             ELSE CASE answer = "Alive" -> Return(NeedsOK, <<>>, <<call>>)
                    [] answer = "Dead" -> Return(NonFatalError(1), <<>>, <<call>>)
                    [] OTHER -> Return(Error("TargetError"), <<>>, <<call>>)
    /\ UNCHANGED <<config, outside, no_ack_mode, tids, locals, conn, acked, history>>

\* `vCont?`
HandleVContQuery ==
    /\ Dispatch("vCont?")
    /\ Return(Handled, <<"vCont;c;C;s;S">>, <<>>)
    /\ UNCHANGED <<config, outside, no_ack_mode, tids, locals, conn, acked, history>>


\* -------------------------------------------------------------------- do_vcont
\* One next() of the filter_map over base_actions, from raw position p with
\* the captured err at e: a malformed action, a resume-with-signal and a
\* thread id of Any each set err and are skipped.
RECURSIVE ActionsNext(_, _, _)
ActionsNext(acts, p, e) ==
    IF p >= Len(acts)
    THEN [found |-> FALSE, sel |-> SelAll, act |-> "-", pos |-> p, err |-> e]
    ELSE LET a == acts[p + 1] IN
         IF ~a.ok THEN ActionsNext(acts, p + 1, "PacketParse")
         ELSE IF a.kind \notin {"Step", "Continue"}
         THEN ActionsNext(acts, p + 1, "ResumeWithSignalUnimplemented")
         ELSE IF a.thread.k = "Any" THEN ActionsNext(acts, p + 1, "PacketUnexpected")
         ELSE [found |-> TRUE,
               sel |-> IF a.thread.k = "WithID" THEN SelWithID(a.thread.id) ELSE SelAll,
               act |-> a.kind, pos |-> p + 1, err |-> e]

\* What the target is handed of one action: the single-thread API gets the
\* ResumeAction alone.
Taken(sel, act) == [sel |-> sel, act |-> act]
ResumeCall(arg) == Call("resume", 0, 0, 0, arg)

\* The iterator built once, before the loop: a later round finds it after
\* the actions the first round was handed.
LoopTopGoesOn(actions, callz) ==
    LET from == IF callz = <<>> THEN 0 ELSE Len(callz[1].arg) IN
    /\ polls' = 0 /\ last_poll' = FALSE /\ err2' = "Ok"
    /\ IF caps["multithread"]
       THEN /\ it' = from /\ err' = "Ok"
            /\ calls' = Append(callz, ResumeCall(<<>>))
            /\ status' = Running
            /\ pc' = "resume"
       ELSE LET nx == ActionsNext(actions, from, "Ok") IN
            /\ it' = nx.pos /\ err' = nx.err
            /\ IF nx.found
               THEN /\ calls' = Append(callz, ResumeCall(<<Taken(NoThread, nx.act)>>))
                    /\ status' = Running
                    /\ pc' = "resume"
               ELSE /\ calls' = callz
                    /\ status' = Error("PacketUnexpected")
                    /\ pc' = "done"

\* resume called twice in one round of the loop.
LoopTopTwice(actions, callz) ==
    /\ polls' = 0 /\ last_poll' = FALSE /\ err2' = "Ok"
    /\ it' = 0 /\ err' = "Ok"
    /\ calls' = callz \o <<ResumeCall(<<>>), ResumeCall(<<>>)>>
    /\ status' = Running
    /\ pc' = "resume"

\* The top of do_vcont's loop: fresh err and err2, a fresh iterator, and the
\* call of resume.  The single-thread arm takes the first action before the
\* call and gives up with PacketUnexpected when there is none.
LoopTop(actions, callz) ==
    /\ polls' = 0 /\ last_poll' = FALSE /\ err2' = "Ok"
    /\ IF caps["multithread"]
       THEN /\ it' = 0 /\ err' = "Ok"
            /\ calls' = Append(callz, ResumeCall(<<>>))
            /\ status' = Running
            /\ pc' = "resume"
       ELSE LET nx == ActionsNext(actions, 0, "Ok") IN
            /\ it' = nx.pos /\ err' = nx.err
            /\ IF nx.found
               THEN /\ calls' = Append(callz, ResumeCall(<<Taken(NoThread, nx.act)>>))
                    /\ status' = Running
                    /\ pc' = "resume"
               ELSE /\ calls' = callz
                    /\ status' = Error("PacketUnexpected")
                    /\ pc' = "done"

\* TidSelector -> IdKind, as `c` and `s` build their ThreadId.
SelectorToIdKind(sel) == IF sel.k = "WithID" THEN IdWithID(sel.id) ELSE IdAll

\* do_vcont is entered with the request's action list.
DoVCont(name, actions) ==
    /\ Dispatch(name)
    /\ base_actions' = actions
    /\ res' = <<>>
    /\ LoopTop(actions, <<>>)
    /\ UNCHANGED <<config, outside, no_ack_mode, tids, conn, acked, history, stop_reason,
                   condition, evals, n_cmd, eval_err, skipped, opkts>>

\* `vCont;actions`, for the action lists of `lists`.
HandleVCont(lists) == \E actions \in lists : DoVCont("vCont", actions)

HandleC == DoVCont("c", NewContinue(SelectorToIdKind(current_resume_tid)))

HandleS == DoVCont("s", NewStep(SelectorToIdKind(current_resume_tid)))

\* ------------------------------------------------------------ the connection
\* Connection::peek on the bytes not yet read: the first of them, none, or
\* the transport's error; `rest` is what is left to read after the call.
NoByte == -1
PeekErr == -2
\* Connection::read in the place of peek: the byte is taken off the connection.
ConnRead(bytes, broken) ==
    [val |-> IF broken THEN PeekErr ELSE IF bytes = <<>> THEN NoByte ELSE Head(bytes),
     rest |-> IF broken \/ bytes = <<>> THEN bytes ELSE Tail(bytes)]

ConnPeek(bytes, broken) ==
    [val |-> IF broken THEN PeekErr ELSE IF bytes = <<>> THEN NoByte ELSE Head(bytes),
     rest |-> bytes]

\* The error of peek dropped: the closure only asks the target to stop.
CheckGdbInterruptForgets(peeked, e2) ==
    [ret |-> peeked \in {INTERRUPT, PeekErr}, err2 |-> e2]

\* The closure check_gdb_interrupt, given what peek returned and err2: the
\* value it returns and the err2 it leaves.
CheckGdbInterrupt(peeked, e2) ==
    CASE peeked = INTERRUPT -> [ret |-> TRUE, err2 |-> e2]
      [] peeked = PeekErr -> [ret |-> TRUE, err2 |-> "ConnectionRead"]
      [] OTHER -> [ret |-> FALSE, err2 |-> e2]

\* The bytes a client sends while the target runs.
ClientBytes == {INTERRUPT, 36}

\* The client sends a byte while the target runs.
ClientSend ==
    /\ pc = "resume"
    /\ Len(pending) < MaxPending
    /\ \E b \in ClientBytes : pending' = Append(pending, b)
    /\ UNCHANGED <<config, outside, no_ack_mode, tids, cmd, args, pc, res, status, calls, conn_err,
                   locals, acked, history>>

\* The transport breaks while the target runs.
ConnFail ==
    /\ pc = "resume"
    /\ ~conn_err
    /\ conn_err' = TRUE
    /\ UNCHANGED <<config, outside, no_ack_mode, tids, cmd, args, pc, res, status, calls, pending,
                   locals, acked, history>>

\* The target, inside resume, calls check_gdb_interrupt.
TargetPolls ==
    /\ pc = "resume"
    /\ polls < MaxPolls
    /\ LET pk == ConnPeek(pending, conn_err)
           r == CheckGdbInterrupt(pk.val, err2)
       IN /\ pending' = pk.rest
          /\ last_poll' = r.ret
          /\ err2' = r.err2
    /\ polls' = polls + 1
    /\ UNCHANGED <<config, outside, no_ack_mode, tids, cmd, args, pc, res, status, calls, conn_err,
                   base_actions, it, err, stop_reason, condition, evals, n_cmd,
                   eval_err, skipped, opkts, acked, history>>

\* A multi-thread target, inside resume, takes the next action of the
\* Actions iterator it was handed.
TargetTakesAction ==
    /\ pc = "resume"
    /\ caps["multithread"]
    /\ it < Len(base_actions)
    /\ LET nx == ActionsNext(base_actions, it, err)
           n == Len(calls)
       IN /\ it' = nx.pos
          /\ err' = nx.err
          /\ calls' = IF nx.found
                      THEN [calls EXCEPT ![n].arg = Append(@, Taken(nx.sel, nx.act))]
                      ELSE calls
    /\ UNCHANGED <<config, outside, no_ack_mode, tids, cmd, args, pc, res, status, pending, conn_err,
                   base_actions, err2, polls, last_poll, stop_reason, condition,
                   evals, n_cmd, eval_err, skipped, opkts, acked, history>>


\* ------------------------------------------------------------------- stops
\* From<StopReason> for ThreadStopReason: the single-thread API's stops carry
\* no tid (0 here) and are given SINGLE_THREAD_TID.
Lift(st) == IF IsBreak(st) THEN [st EXCEPT !.tid = SINGLE_THREAD_TID] ELSE st

\* The stops resume can return: a single-thread target's are lifted.
Stops ==
    IF caps["multithread"]
    THEN PlainStops \cup BreakStops(Tids)
    ELSE {Lift(st) : st \in PlainStops \cup BreakStops({0})}

\* The watch kinds with Read and ReadWrite exchanged.
WatchStrSwapped(kind) ==
    CASE kind = "Write" -> "watch:"
      [] kind = "Read" -> "awatch:"
      [] kind = "ReadWrite" -> "rwatch:"

WatchStr(kind) ==
    CASE kind = "Write" -> "watch:"
      [] kind = "Read" -> "rwatch:"
      [] kind = "ReadWrite" -> "awatch:"

\* The fragments do_vcont writes for a stop.
StopReply(sr) ==
    CASE sr.r \in {"DoneStep", "GdbInterrupt"} -> <<"S05">>
      [] sr.r = "Signal" -> <<"S", HexNum(sr.code)>>
      [] sr.r = "Halted" -> <<"W19">>
      [] sr.r = "SwBreak" ->
            <<"T05", "thread:", ThreadIdStr(FAKE_PID, sr.tid), ";", "swbreak:", ";">>
      [] sr.r = "HwBreak" ->
            <<"T05", "thread:", ThreadIdStr(FAKE_PID, sr.tid), ";", "hwbreak:", ";">>
      [] sr.r = "Watch" ->
            <<"T05", "thread:", ThreadIdStr(FAKE_PID, sr.tid), ";", WatchStr(sr.kind),
              HexNum(sr.addr), ";">>

\* A Halted stop handled like any other: the session goes on.
StopStatusHandled(sr) == Handled

\* The status do_vcont returns for a stop.
StopStatus(sr) == IF sr.r = "Halted" THEN Disconnect("TargetHalted") ELSE Handled

\* do_vcont returns st with body written.
FinishVCont(st, body) ==
    /\ res' = body
    /\ status' = st
    /\ pc' = IF Ends(st) THEN "done" ELSE "returned"

\* The stop is reported: the reply is written and do_vcont returns.
ReportStop(sr) ==
    /\ FinishVCont(StopStatus(sr), StopReply(sr))
    /\ IF IsBreak(sr)
       THEN reported_mem' = sr.tid /\ reported_resume' = sr.tid
       ELSE UNCHANGED history

\* The executor not asked for: every agent's bytecode is evaluated.
EvaluatesBytecodeAnyExecutor(c) == BreakpointAgent(c)

\* Whether a breakpoint stop goes through eval_breakpoint_bytecode.
EvaluatesBytecode(c) == BreakpointAgent(c) /\ c["executor_gdbstub"]

\* A breakpoint stop: the two thread selectors are set, and the stop is
\* reported unless its bytecode is evaluated first.
BreakStop(sr) ==
    /\ current_mem_tid' = sr.tid
    /\ current_resume_tid' = SelWithID(sr.tid)
    /\ IF EvaluatesBytecode(caps)
       THEN /\ pc' = "eval_regs"
            /\ UNCHANGED <<res, status, history>>
       ELSE ReportStop(sr)

\* resume returns: a fatal error of the target (~ok), or the stop sr.  err
\* and err2 are looked at before the stop is.
ResumeReturns(ok, sr) ==
    /\ pc = "resume"
    /\ IF ~ok
       THEN /\ FinishVCont(Error("TargetError"), res)
            /\ UNCHANGED <<tids, history, stop_reason>>
       ELSE IF err # "Ok"
       THEN /\ FinishVCont(Error(err), res)
            /\ UNCHANGED <<tids, history, stop_reason>>
       ELSE IF err2 # "Ok"
       THEN /\ FinishVCont(Error(err2), res)
            /\ UNCHANGED <<tids, history, stop_reason>>
       ELSE /\ stop_reason' = sr
            /\ IF IsBreak(sr)
               THEN BreakStop(sr)
               ELSE ReportStop(sr) /\ UNCHANGED tids
    /\ it' = 0 /\ err' = "Ok" /\ err2' = "Ok" /\ polls' = 0 /\ last_poll' = FALSE
    /\ evals' = <<>>
    /\ UNCHANGED <<config, no_ack_mode, cmd, args, calls, pending, conn_err, base_actions,
                   condition, n_cmd, eval_err, skipped, opkts, acked>>

\* resume returns what the target chooses.
TargetReturns ==
    /\ \E ok \in BOOLEAN, sr \in Stops : ResumeReturns(ok, sr)
    /\ UNCHANGED outside


\* ------------------------------------------------- eval_breakpoint_bytecode
\* What target.evaluate(id) yields for a bytecode, and whether the `O`
\* packet written after a non-fatal error goes out.
CondOutcomes == {"Zero", "NonZero", "Fatal", "NonFatal", "NonFatalWriteFails"}
CmdOutcomes == {"Ok", "Fatal", "NonFatal", "NonFatalWriteFails"}

\* The test of the value inverted: Some(val.is_zero() || ...).
OrConditionInverted(nonzero, cond) ==
    IF ~nonzero \/ cond = "True" THEN "True" ELSE "False"

\* The condition seen so far forgotten: Some(!val.is_zero()).
OrConditionLast(nonzero, cond) == IF nonzero THEN "True" ELSE "False"

\* Some(!val.is_zero() || condition.unwrap_or(false))
OrCondition(nonzero, cond) == IF nonzero \/ cond = "True" THEN "True" ELSE "False"

\* A non-fatal error of a condition taken for a value of zero.
EvalConditionErrIsZero(o, cond, e) ==
    CASE o \in {"Zero", "NonFatal"} ->
            [condition |-> OrCondition(FALSE, cond), err |-> e,
             o |-> IF o = "NonFatal" THEN 1 ELSE 0]
      [] o = "NonZero" -> [condition |-> OrCondition(TRUE, cond), err |-> e, o |-> 0]
      [] o = "Fatal" -> [condition |-> cond, err |-> "TargetError", o |-> 0]
      [] o = "NonFatalWriteFails" ->
            [condition |-> cond, err |-> "ConnectionWrite", o |-> 0]

\* The closure eval_condition on one bytecode: the condition and err it
\* leaves, and the `O` packets it flushed.  It always returns Ok(()).
EvalCondition(o, cond, e) ==
    CASE o = "Zero" -> [condition |-> OrCondition(FALSE, cond), err |-> e, o |-> 0]
      [] o = "NonZero" -> [condition |-> OrCondition(TRUE, cond), err |-> e, o |-> 0]
      [] o = "Fatal" -> [condition |-> cond, err |-> "TargetError", o |-> 0]
      [] o = "NonFatal" -> [condition |-> cond, err |-> e, o |-> 1]
      [] o = "NonFatalWriteFails" ->
            [condition |-> cond, err |-> "ConnectionWrite", o |-> 0]

\* The closure eval_command on one bytecode: a fatal error is returned to the
\* target, which hands it back from get_breakpoint_bytecode.
EvalCommand(o, e) ==
    CASE o = "Ok" -> [ret |-> "Ok", err |-> e, o |-> 0]
      [] o = "Fatal" -> [ret |-> "Err", err |-> e, o |-> 0]
      [] o = "NonFatal" -> [ret |-> "Ok", err |-> e, o |-> 1]
      [] o = "NonFatalWriteFails" -> [ret |-> "Ok", err |-> "ConnectionWrite", o |-> 0]

\* condition.unwrap_or(true)
Unwrapped(cond) == cond # "False"

\* The condition left out of the result: the commands always run.
EvalResultAlways(cond) == TRUE

\* What eval_breakpoint_bytecode returns, when it returns Ok: the condition.
EvalResult(cond) == Unwrapped(cond)

EvalAtRest == condition' = "None" /\ n_cmd' = 0 /\ eval_err' = "Ok"

\* eval_breakpoint_bytecode reads the stopped thread's registers.
EvalReadsRegisters ==
    /\ pc = "eval_regs"
    /\ \E out \in TargetOutcomes :
          /\ calls' = Append(calls, Returned(Call("read_registers", MemTid, 0, 0, <<>>),
                                             out))
          /\ CASE out = "Fatal" ->
                    /\ FinishVCont(Error("TargetError"), res)
                    /\ UNCHANGED history
              [] out = "NonFatal" -> ReportStop(stop_reason)
              [] out = "Ok" ->
                    /\ pc' = "eval_cond"
                    /\ UNCHANGED <<res, status, history>>
    /\ UNCHANGED <<config, outside, no_ack_mode, tids, cmd, args, conn, locals, acked>>

\* The target hands the next condition bytecode to eval_condition; evaluate
\* yields one of `outcomes`.
EvalConditionStep(outcomes) ==
    /\ pc = "eval_cond"
    /\ Len(evals) < MaxCond
    /\ \E o \in outcomes :
          LET r == EvalCondition(o, condition, eval_err) IN
          /\ condition' = r.condition
          /\ eval_err' = r.err
          /\ opkts' = opkts + r.o
          /\ evals' = Append(evals, o)
    /\ UNCHANGED <<config, outside, no_ack_mode, tids, cmd, args, pc, res, status, calls, conn,
                   base_actions, it, err, err2, polls, last_poll, stop_reason,
                   n_cmd, skipped, acked, history>>

\* get_breakpoint_bytecode(Condition) returns: with the target's error (when
\* `may_fail`), or Ok; then the commands are run, or the stop is skipped and
\* the loop of do_vcont goes round again.
EvalConditionsEnd(may_fail) ==
    /\ pc = "eval_cond"
    /\ \E ok \in {TRUE, ~may_fail} :
          IF ~ok
          THEN /\ FinishVCont(Error("TargetError"), res)
               /\ UNCHANGED <<calls, it, err, err2, polls, last_poll, stop_reason,
                              condition, evals, n_cmd, eval_err, skipped>>
          ELSE IF EvalResult(condition)
          THEN /\ pc' = "eval_cmd"
               /\ UNCHANGED <<res, status, calls, it, err, err2, polls, last_poll,
                              stop_reason, condition, evals, n_cmd, eval_err,
                              skipped>>
          ELSE /\ skipped + 1 < MaxResumes
               /\ skipped' = skipped + 1
               /\ stop_reason' = NoStop
               /\ EvalAtRest
               /\ UNCHANGED evals
               /\ LoopTop(base_actions, calls)
               /\ UNCHANGED res
    /\ UNCHANGED <<config, outside, no_ack_mode, tids, cmd, args, conn, base_actions, opkts, acked,
                   history>>

\* The target hands the next command bytecode to eval_command.
EvalCommandStep(outcomes) ==
    /\ pc = "eval_cmd"
    /\ n_cmd < MaxCmd
    /\ \E o \in outcomes :
          LET r == EvalCommand(o, eval_err) IN
          /\ eval_err' = r.err
          /\ opkts' = opkts + r.o
          /\ IF r.ret = "Err"
             THEN FinishVCont(Error("TargetError"), res)
             ELSE UNCHANGED <<pc, res, status>>
    /\ n_cmd' = n_cmd + 1
    /\ UNCHANGED <<config, outside, no_ack_mode, tids, cmd, args, calls, conn, base_actions, it,
                   err, err2, polls, last_poll, stop_reason, condition, evals,
                   skipped, acked, history>>

\* get_breakpoint_bytecode(Command) returns, and the stop is reported.
EvalCommandsEnd(may_fail) ==
    /\ pc = "eval_cmd"
    /\ \E ok \in {TRUE, ~may_fail} :
          IF ok
          THEN ReportStop(stop_reason)
          ELSE FinishVCont(Error("TargetError"), res) /\ UNCHANGED history
    /\ UNCHANGED <<config, outside, no_ack_mode, tids, cmd, args, calls, conn, locals, acked>>

\* ------------------------------------------------------------ the main loop
\* The reply is flushed and the next packet is read: the bytes before it are
\* consumed, and it is acknowledged with `+` unless no-ack mode is on.
Flush ==
    /\ pc = "returned"
    /\ ~conn_err
    /\ pc' = "idle"
    /\ cmd' = "-" /\ args' = NoArgs
    /\ res' = <<>> /\ status' = NoStatus /\ calls' = <<>>
    /\ base_actions' = <<>> /\ it' = 0 /\ err' = "Ok" /\ err2' = "Ok"
    /\ polls' = 0 /\ last_poll' = FALSE /\ stop_reason' = NoStop
    /\ EvalAtRest /\ evals' = <<>>
    /\ skipped' = 0 /\ opkts' = 0
    /\ pending' = <<>>
    /\ acked' = ~no_ack_mode
    /\ UNCHANGED <<config, no_ack_mode, tids, conn_err, history>>

NextPacket == Flush /\ UNCHANGED outside

\* Reading the next packet fails on a broken transport.
RecvFails ==
    /\ pc = "returned"
    /\ conn_err
    /\ status' = Error("ConnectionRead")
    /\ pc' = "done"
    /\ UNCHANGED <<config, outside, no_ack_mode, tids, cmd, args, res, calls, conn, locals, acked,
                   history>>

\* ------------------------------------------------------------ specifications
\* The commands that do not resume the target.
Commands ==
    \/ HandleQSupported
    \/ HandleQStartNoAckMode
    \/ HandleQXferFeaturesRead
    \/ HandleQuestionMark
    \/ HandleQAttached
    \/ HandleG
    \/ HandleUpperG
    \/ HandleM
    \/ HandleUpperM
    \/ HandleKill
    \/ HandleD
    \/ HandleP
    \/ HandleUpperP
    \/ HandleVContQuery
    \/ HandleHg
    \/ HandleHc
    \/ HandleQfThreadInfo
    \/ HandleQsThreadInfo
    \/ HandleT

\* The action lists of a session's vCont packets: one well-formed action, or
\* a resume-with-signal.
SessionLists ==
    {<<VContAction("Continue", NoThread)>>, <<VContAction("Step", IdWithID(1))>>,
     <<VContAction("ContinueWithSig", NoThread)>>}

\* A session over a transport that stays up and a target whose bytecode
\* evaluation does not fail.
Next ==
    \/ Commands
    \/ HandleVCont(SessionLists)
    \/ HandleC
    \/ HandleS
    \/ TargetPolls
    \/ TargetTakesAction
    \/ TargetReturns
    \/ EvalReadsRegisters
    \/ EvalConditionStep({"Zero", "NonZero"})
    \/ EvalConditionsEnd(FALSE)
    \/ EvalCommandStep({"Ok"})
    \/ EvalCommandsEnd(FALSE)
    \/ NextPacket

Spec == Init /\ [][Next]_vars

\* ------------------------------------------- qSupported over every target
\* The packet buffer lengths of the sessions that answer qSupported.
PacketSizes == {255, 1024, 4096}

InitCaps == InitOver(AllCaps, PacketSizes)

NextCaps ==
    \/ HandleQSupported
    \/ NextPacket

SpecCaps == InitCaps /\ [][NextCaps]_vars

\* ---------------------------------------------- vCont over every action list
\* Targets without breakpoint bytecode, single- and multi-thread.
PlainCaps == {[NoCaps EXCEPT !["multithread"] = mt] : mt \in BOOLEAN}

InitVCont == InitOver(PlainCaps, {1024})

NextVCont ==
    \/ HandleVCont(ActionLists)
    \/ TargetTakesAction
    \/ TargetReturns

SpecVCont == InitVCont /\ [][NextVCont]_vars

\* ------------------------------------- breakpoint bytecode that may fail
\* Targets whose breakpoint agent leaves the evaluation to the stub.
AgentCaps ==
    {[NoCaps EXCEPT !["multithread"] = mt, !["breakpoints"] = TRUE,
                    !["sw_breakpoint"] = TRUE, !["breakpoint_agent"] = TRUE,
                    !["executor_gdbstub"] = TRUE] : mt \in BOOLEAN}

InitEval == InitOver(AgentCaps, {1024})

NextEval ==
    \/ HandleC
    \/ HandleS
    \/ TargetReturns
    \/ EvalReadsRegisters
    \/ EvalConditionStep(CondOutcomes)
    \/ EvalConditionsEnd(TRUE)
    \/ EvalCommandStep(CmdOutcomes)
    \/ EvalCommandsEnd(TRUE)
    \/ NextPacket

SpecEval == InitEval /\ [][NextEval]_vars

\* ------------------------------------------ a client that sends while running
InitConn == InitOver(PlainCaps, {1024})

NextConn ==
    \/ HandleC
    \/ HandleS
    \/ ClientSend
    \/ ConnFail
    \/ TargetPolls
    \/ TargetReturns
    \/ NextPacket
    \/ RecvFails

SpecConn == InitConn /\ [][NextConn]_vars

\* ------------------------------------------------------------------ claims
\* The optional feature strings, in the order qSupported lists them.
OptionalFeatures ==
    <<";QDisableRandomization+", ";QEnvironmentHexEncoded+", ";QEnvironmentUnset+",
      ";QEnvironmentReset+", ";QStartupWithShell+", ";QSetWorkingDir+", ";QAgent+",
      ";swbreak+", ";hwbreak+", ";BreakpointCommands+", ";ConditionalBreakpoints+",
      ";qXfer:features:read+">>

\* The gate of each optional feature string: the capability accessors that
\* must return Some for it.
Gate(c, f) ==
    CASE f = ";QDisableRandomization+" -> c["extended_mode"] /\ c["configure_aslr"]
      [] f \in {";QEnvironmentHexEncoded+", ";QEnvironmentUnset+", ";QEnvironmentReset+"} ->
            c["extended_mode"] /\ c["configure_env"]
      [] f = ";QStartupWithShell+" -> c["extended_mode"] /\ c["configure_startup_shell"]
      [] f = ";QSetWorkingDir+" -> c["extended_mode"] /\ c["configure_working_dir"]
      [] f = ";QAgent+" -> c["agent"]
      [] f = ";swbreak+" -> c["breakpoints"] /\ c["sw_breakpoint"]
      [] f = ";hwbreak+" ->
            c["breakpoints"] /\ (c["hw_breakpoint"] \/ c["hw_watchpoint"])
      [] f \in {";BreakpointCommands+", ";ConditionalBreakpoints+"} ->
            c["breakpoints"] /\ c["breakpoint_agent"]
      [] f = ";qXfer:features:read+" -> c["target_description_xml"]

\* C1: for every combination of capabilities, the qSupported reply is
\* PacketSize= and the hex of the packet buffer length, then vContSupported+,
\* multiprocess+ and QStartNoAckMode+, then, in their fixed order, exactly the
\* optional feature strings whose gate is true.
C1_QSupportedGates ==
    (cmd = "qSupported" /\ pc = "returned") =>
        /\ status = Handled
        /\ res = <<"PacketSize=", HexNum(packet_buffer_len), ";vContSupported+",
                   ";multiprocess+", ";QStartNoAckMode+">>
                 \o SelectSeq(OptionalFeatures, LAMBDA f : Gate(caps, f))

\* A target with watchpoints but no hardware breakpoints, with an environment
\* to configure but no agent, has been answered.
C1_Witness ==
    /\ cmd = "qSupported" /\ pc = "returned"
    /\ packet_buffer_len = 4096
    /\ caps["extended_mode"] /\ caps["configure_env"] /\ ~caps["configure_aslr"]
    /\ caps["breakpoints"] /\ caps["hw_watchpoint"] /\ ~caps["hw_breakpoint"]
    /\ ~caps["agent"] /\ caps["sw_breakpoint"] /\ ~caps["breakpoint_agent"]
    /\ ~caps["configure_startup_shell"] /\ ~caps["configure_working_dir"]
    /\ ~caps["target_description_xml"]
    /\ Body(res) = "PacketSize=1000;vContSupported+;multiprocess+;QStartNoAckMode+"
                   \o ";QEnvironmentHexEncoded+;QEnvironmentUnset+;QEnvironmentReset+"
                   \o ";swbreak+;hwbreak+"

\* The commands that read or write registers and memory.
MemCmds == {"g", "G", "m", "M", "p", "P"}

\* C2: after a stop reported as T05thread:<t>, every later register or memory
\* command hands tid t to a multi-thread target until an Hg with a thread id,
\* and every later c / s resumes WithID(t) until an Hc with All or a thread id.
C2_ThreadIdConsistency ==
    /\ (/\ caps["multithread"] /\ reported_mem # 0
        /\ cmd \in MemCmds /\ pc \in {"returned", "done"} /\ calls # <<>>)
          => calls[1].tid = reported_mem
    /\ (reported_resume # 0 /\ cmd \in {"c", "s"} /\ pc = "resume")
          => base_actions[1].thread = IdWithID(reported_resume)

\* Every condition bytecode of the stop evaluated to zero.
AllZero(log) == \A i \in 1 .. Len(log) : log[i] = "Zero"

\* The step in which get_breakpoint_bytecode(Condition) returns Ok.
ConditionsEnded == pc = "eval_cond" /\ pc' # "eval_cond" /\ status'.k # "Err"

\* The stop is skipped: nothing is written and resume is called once more.
StopSkipped ==
    /\ pc' = "resume"
    /\ res' = <<>> /\ opkts' = opkts
    /\ Len(calls') = Len(calls) + 1
    /\ calls'[Len(calls')].op = "resume"

\* C3, as stated: with a stub-side executor, a breakpoint stop all of whose
\* condition bytecodes evaluate to zero, none failing, is not reported and
\* the target is resumed again.
C3_AsStated == [][(ConditionsEnded /\ AllZero(evals)) => StopSkipped]_vars

\* C3, amended: the same when at least one condition bytecode is attached to
\* the stopped address and the target's enumeration of them returns Ok.
C3_SkipsWhenAllZero ==
    [][(ConditionsEnded /\ evals # <<>> /\ AllZero(evals)) => StopSkipped]_vars

\* Two conditions have evaluated to zero, the stop was skipped without a
\* reply, and the target runs again.
C3_Witness ==
    /\ pc = "resume" /\ skipped = 1 /\ res = <<>>
    /\ evals = <<"Zero", "Zero">>
    /\ Len(calls) = 3
    /\ calls[1].op = "resume" /\ calls[2].op = "read_registers"
    /\ calls[3].op = "resume"
    /\ EvaluatesBytecode(caps)

\* C4: a fatal error of the target while a condition bytecode is evaluated
\* aborts the request with TargetError: no command bytecode is run, no stop
\* reply is written, the target is not resumed, and the session ends.
C4_FatalConditionAborts ==
    (\E i \in 1 .. Len(evals) : evals[i] = "Fatal") =>
        /\ pc \in {"eval_cond", "done"}
        /\ pc = "done" => (status = Error("TargetError") /\ res = <<>>)

\* C5: no_ack_mode is false at the start; QStartNoAckMode sets it and is
\* answered OK; nothing sets it back; and once it is set no packet read
\* afterwards is acknowledged with `+`.
C5_NoAckMode ==
    /\ ~no_ack_mode
    /\ [][/\ no_ack_mode => no_ack_mode'
          /\ (pc = "idle" /\ cmd' = "QStartNoAckMode")
                => (no_ack_mode' /\ pc' = "returned" /\ Reply' = "OK")
          /\ (no_ack_mode /\ pc = "returned" /\ pc' = "idle") => ~acked'
          /\ (~no_ack_mode /\ cmd' # "QStartNoAckMode") => ~no_ack_mode']_vars

\* In no-ack mode a later packet was read unacknowledged, and handled.
C5_Witness ==
    /\ no_ack_mode /\ ~acked
    /\ cmd = "g" /\ pc = "returned" /\ status = Handled

\* The reply body of each stop that is reported to the client and leaves the
\* session going.
ExpectedStopBody(sr) ==
    CASE sr.r \in {"DoneStep", "GdbInterrupt"} -> "S05"
      [] sr.r = "Signal" -> "S" \o HexNum(sr.code)
      [] sr.r = "SwBreak" ->
            "T05thread:p" \o HexNum(FAKE_PID) \o "." \o HexNum(sr.tid) \o ";swbreak:;"
      [] sr.r = "HwBreak" ->
            "T05thread:p" \o HexNum(FAKE_PID) \o "." \o HexNum(sr.tid) \o ";hwbreak:;"
      [] sr.r = "Watch" /\ sr.kind = "Write" ->
            "T05thread:p" \o HexNum(FAKE_PID) \o "." \o HexNum(sr.tid)
            \o ";watch:" \o HexNum(sr.addr) \o ";"
      [] sr.r = "Watch" /\ sr.kind = "Read" ->
            "T05thread:p" \o HexNum(FAKE_PID) \o "." \o HexNum(sr.tid)
            \o ";rwatch:" \o HexNum(sr.addr) \o ";"
      [] sr.r = "Watch" /\ sr.kind = "ReadWrite" ->
            "T05thread:p" \o HexNum(FAKE_PID) \o "." \o HexNum(sr.tid)
            \o ";awatch:" \o HexNum(sr.addr) \o ";"

\* C6: a resume request that returns Handled has written the translation of
\* the stop the target returned: S05 for DoneStep and GdbInterrupt, S and
\* the hex code for a Signal, T05thread:p<FAKE_PID>.<tid>; and swbreak:;,
\* hwbreak:;, or watch: / rwatch: / awatch: with the hex address and `;`.
C6_StopReplyTranslation ==
    (cmd \in {"vCont", "c", "s"} /\ pc = "returned" /\ status = Handled) =>
        /\ stop_reason # NoStop
        /\ stop_reason.r # "Halted"
        /\ Body(res) = ExpectedStopBody(stop_reason)
        /\ (IsBreak(stop_reason) /\ ~caps["multithread"])
              => stop_reason.tid = SINGLE_THREAD_TID

\* A read watchpoint of thread 2 at 0x1000 has been reported.
C6_Witness ==
    /\ cmd = "vCont" /\ pc = "returned" /\ status = Handled
    /\ stop_reason = Stop("Watch", 2, "Read", 4096, 0)
    /\ Body(res) = "T05thread:p1.2;rwatch:1000;"

\* C7: when resume returns Halted and do_vcont comes to its match on the stop
\* (neither the action iterator nor the interrupt check has stored an error),
\* the reply is W19, the handler returns Disconnect(TargetHalted), the two
\* thread selectors are left alone, and the session handles nothing after it.
C7_HaltedDisconnects ==
    [][/\ (pc = "resume" /\ pc' # "resume" /\ stop_reason'.r = "Halted")
            => /\ res' = <<"W19">>
               /\ status' = Disconnect("TargetHalted")
               /\ pc' = "done"
               /\ current_mem_tid' = current_mem_tid
               /\ current_resume_tid' = current_resume_tid
       /\ pc = "done" => pc' = "done"]_vars

\* The target halted after an earlier stop had moved both selectors to
\* thread 2.
C7_Witness ==
    /\ pc = "done" /\ stop_reason.r = "Halted" /\ Body(res) = "W19"
    /\ status = Disconnect("TargetHalted")
    /\ current_mem_tid = 2 /\ current_resume_tid = SelWithID(2)

\* The action list holds a resume with a signal.
HasSignalAction(acts) ==
    \E i \in 1 .. Len(acts) :
        acts[i].ok /\ acts[i].kind \in {"ContinueWithSig", "StepWithSig"}

\* C8: a vCont whose action list holds a resume-with-signal action ends with
\* ResumeWithSignalUnimplemented and writes no stop reply, for both kinds of
\* target and wherever the action stands.
C8_SignalActionRejected ==
    (cmd = "vCont" /\ HasSignalAction(base_actions) /\ pc \in {"returned", "done"}) =>
        /\ status = Error("ResumeWithSignalUnimplemented")
        /\ res = <<>>

\* C9: a call of check_gdb_interrupt returns true exactly when the connection
\* is broken or its first unread byte is 0x03, and leaves the unread bytes as
\* they were.
C9_CheckInterruptPeeks ==
    [][polls' = polls + 1 =>
          /\ last_poll' = (conn_err \/ (pending # <<>> /\ Head(pending) = 3))
          /\ pending' = pending]_vars

\* The callback has been called twice on an interrupt followed by another
\* byte: it said true, and both bytes are still unread.
C9_Witness ==
    /\ pc = "resume" /\ polls >= 2 /\ last_poll /\ ~conn_err
    /\ pending = <<3, 36>>

\* C10: without extended mode, `k` writes nothing, calls nothing of the
\* target, and ends the session with Disconnect(Kill).
C10_KillWithoutExtendedMode ==
    (cmd = "k" /\ ~caps["extended_mode"]) =>
        /\ res = <<>>
        /\ calls = <<>>
        /\ status = Disconnect("Kill")
        /\ pc = "done"

\* `k` has ended the session of a target without extended mode.
C10_Witness ==
    /\ cmd = "k" /\ pc = "done" /\ ~caps["extended_mode"]
    /\ status = Disconnect("Kill")

\* ------------------------------------------- the commands that do not resume
InitCommands == InitOver(SessionCaps, {1024})

NextCommands ==
    \/ Commands
    \/ NextPacket

SpecCommands == InitCommands /\ [][NextCommands]_vars


\* ---------------------------------------- reading the target description
\* The texts a target description is drawn from: every text of at most MaxXml
\* characters over blanks, a plain character and two that write_binary escapes.
MaxXml == 4
XmlChars == {" ", "<", "}", "*"}
XmlTexts == UNION {[1 .. n -> XmlChars] : n \in 0 .. MaxXml}
XmlCaps == {NoCaps, [NoCaps EXCEPT !["target_description_xml"] = TRUE]}

\* The client's side of write_binary: `}` announces a byte XOR 0x20.
Unescape(c) ==
    CASE c = "]" -> "}"
      [] c = "\n" -> "*"
      [] OTHER -> c

RECURSIVE ReadBinary(_)
ReadBinary(str) ==
    IF str = "" THEN <<>>
    ELSE IF Head(str) = "}" /\ Len(str) >= 2
    THEN <<Unescape(SubSeq(str, 2, 2))>> \o ReadBinary(SubSeq(str, 3, Len(str)))
    ELSE <<Head(str)>> \o ReadBinary(Tail(str))

XferDone == xfer.pages # <<>> /\ xfer.pages[Len(xfer.pages)].prefix = "l"

InitXfer ==
    /\ caps \in XmlCaps
    /\ packet_buffer_len = 1024
    /\ attached_pids = <<>>
    /\ xml \in IF caps["target_description_xml"] THEN XmlTexts ELSE {<<>>}
    /\ xfer \in {Xfer(len) : len \in 1 .. MaxXferLen + 1}
    /\ emu = NoEmu
    /\ sock = NoSock
    /\ InitSession

\* The client asks for the next chunk of the description.
ClientAsks ==
    /\ ~XferDone
    /\ QXferFeaturesRead(xfer.offset, xfer.len)

\* The client asks at an offset at or past the end of the description.
ClientAsksPastEnd ==
    \E offset \in Len(Trim(xml)) .. Len(xml) + 1 :
        QXferFeaturesRead(offset, xfer.len)

\* The client takes the reply: a page asked for at its offset is decoded and
\* appended, and its next request starts len further.
ClientTakesPage ==
    /\ cmd = "qXferFeaturesRead"
    /\ Flush
    /\ UNCHANGED <<emu, sock>>
    /\ LET reply == Body(res)
           data == ReadBinary(Tail(reply))
       IN  xfer' = IF args.addr = xfer.offset /\ ~XferDone
                   THEN [xfer EXCEPT !.offset = @ + xfer.len,
                                     !.got = @ \o data,
                                     !.pages = Append(@, [prefix |-> Head(reply),
                                                          n |-> Len(data)])]
                   ELSE xfer

NextXfer ==
    \/ ClientAsks
    \/ ClientAsksPastEnd
    \/ ClientTakesPage

SpecXfer == InitXfer /\ [][NextXfer]_vars


\* ------------------------------------------------------- attached processes
\* Targets with and without extended mode, and every record of attached pids
\* the extended-mode commands can have left.
ExtendedCaps ==
    {[NoCaps EXCEPT !["multithread"] = mt, !["extended_mode"] = xm] :
        mt \in BOOLEAN, xm \in BOOLEAN}
AttachedPids == UNION {[S -> BOOLEAN] : S \in SUBSET Pids}

InitAttached ==
    /\ caps \in ExtendedCaps
    /\ packet_buffer_len = 1024
    /\ attached_pids \in AttachedPids
    /\ xml = <<>>
    /\ xfer = NoXfer
    /\ emu = NoEmu
    /\ sock = NoSock
    /\ InitSession

NextAttached ==
    \/ HandleQAttached
    \/ NextPacket

SpecAttached == InitAttached /\ [][NextAttached]_vars


\* ------------------------------------------------------------ memory reads
InitMem == InitOver(PlainCaps, {1024})

\* Reads of up to MaxLen + 1 bytes through buffers of up to MaxBuf + 2, also
\* from the top of the address space.
NextMem ==
    \/ ReadMem(MemAddrs \cup TopAddrs \cup {TooWide}, 0 .. MaxLen + 1, 1 .. MaxBuf + 2)
    \/ NextPacket

SpecMem == InitMem /\ [][NextMem]_vars


\* ------------------------------------- the example target (armv4t, gdb.rs)
\* `cycles % 1024`, and the i32 that `cycles` is, both scaled down: a check
\* every PollEvery instructions, a counter of CyclesBits bits.
PollEvery == 4
CyclesBits == 4
CyclesMax == 2 ^ (CyclesBits - 1) - 1
CyclesMin == 0 - 2 ^ (CyclesBits - 1)

\* Target for Emu: single-thread, with software breakpoints, hardware
\* watchpoints and extended mode.
EmuCaps ==
    [NoCaps EXCEPT !["sw_breakpoint"] = TRUE, !["hw_watchpoint"] = TRUE,
                   !["extended_mode"] = TRUE]

\* What Emu::step yields: "None", or an event of the program.
Events(program) ==
    IF program = "spin" THEN {}
    ELSE {"Halted", "Break", "WatchWrite", "WatchRead"}

\* The match on the event at the end of resume.
EventStop(event) ==
    CASE event = "Halted" -> Stop("Halted", 0, "-", 0, 0)
      [] event = "Break" -> Stop("HwBreak", 0, "-", 0, 0)
      [] event = "WatchWrite" -> Stop("Watch", 0, "Write", 16, 0)
      [] event = "WatchRead" -> Stop("Watch", 0, "Read", 16, 0)

\* The ResumeAction resume was called with.
EmuAction == calls[Len(calls)].arg[1].act

EmuRunning == pc = "resume" /\ ~caps["multithread"] /\ emu.ret = NoStop

\* ResumeAction::Step: one step, which ends in an event or in DoneStep.
EmuStepOnce ==
    /\ EmuRunning
    /\ EmuAction = "Step"
    /\ \E event \in Events(emu.program) \cup {"None"} :
          emu' = [emu EXCEPT !.ret = IF event = "None"
                                     THEN Stop("DoneStep", 0, "-", 0, 0)
                                     ELSE EventStop(event)]
    /\ UNCHANGED <<config, xfer, sock, no_ack_mode, tids, cmd, args, pc, res, status, calls,
                   conn, locals, acked, history>>

\* ResumeAction::Continue: one turn of the loop.  A step that yields an event
\* leaves the loop; otherwise cycles is incremented (past the largest value
\* the build panics or the counter wraps), and every PollEvery-th turn
\* check_gdb_interrupt is called, which ends the loop when it returns true.
EmuStep ==
    /\ EmuRunning
    /\ EmuAction = "Continue"
    /\ \E event \in Events(emu.program) \cup {"None"} :
          IF event # "None"
          THEN /\ emu' = [emu EXCEPT !.ret = EventStop(event)]
               /\ UNCHANGED <<pc, status, last_poll, err2>>
          ELSE IF emu.cycles = CyclesMax /\ emu.checks
          THEN /\ pc' = "done" /\ status' = Panicked
               /\ UNCHANGED <<emu, last_poll, err2>>
          ELSE LET c == IF emu.cycles = CyclesMax THEN CyclesMin ELSE emu.cycles + 1
                   pk == ConnPeek(pending, conn_err)
                   r == CheckGdbInterrupt(pk.val, err2)
               IN IF c % PollEvery = 0
                  THEN /\ emu' = [emu EXCEPT !.cycles = c,
                                             !.ret = IF r.ret
                                                     THEN Stop("GdbInterrupt", 0, "-", 0, 0)
                                                     ELSE NoStop]
                       /\ last_poll' = r.ret
                       /\ err2' = r.err2
                       /\ UNCHANGED <<pc, status>>
                  ELSE /\ emu' = [emu EXCEPT !.cycles = c]
                       /\ UNCHANGED <<pc, status, last_poll, err2>>
    /\ UNCHANGED <<config, xfer, sock, no_ack_mode, tids, cmd, args, res, calls, conn,
                   base_actions, it, err, polls, stop_reason, condition, evals, n_cmd,
                   eval_err, skipped, opkts, acked, history>>

\* resume returns the stop to do_vcont.
EmuReturns ==
    /\ ~caps["multithread"]
    /\ emu.ret # NoStop
    /\ ResumeReturns(TRUE, Lift(emu.ret))
    /\ emu' = [emu EXCEPT !.cycles = 0, !.ret = NoStop]
    /\ UNCHANGED <<xfer, sock>>

InitEmu ==
    /\ caps = EmuCaps
    /\ packet_buffer_len = 1024
    /\ attached_pids = <<>>
    /\ xml = <<>>
    /\ xfer = NoXfer
    /\ emu \in {Emu(program, checks) : program \in {"spin", "eventful"},
                                       checks \in BOOLEAN}
    /\ sock = NoSock
    /\ InitSession

NextEmu ==
    \/ HandleC
    \/ HandleS
    \/ ClientSend
    \/ EmuStepOnce
    \/ EmuStep
    \/ EmuReturns
    \/ NextPacket

\* The emulator keeps running while resume has not returned.
SpecEmu ==
    /\ InitEmu /\ [][NextEmu]_vars
    /\ WF_vars(EmuStepOnce) /\ WF_vars(EmuStep) /\ WF_vars(EmuReturns)


\* ----------------------------------------------- Connection for UnixStream
\* The longest input a peer sends.
MaxSent == 3

\* recv and read return at once when a byte is there, when the peer has
\* closed, or when the socket does not block; otherwise the call waits.
Returns(s) == s.queue # <<>> \/ s.closed \/ s.nonblocking

\* PeekExt::peek: recv(fd, buf, 1, MSG_PEEK) and cvt.  buf starts as [0u8]
\* and holds the first pending byte when recv reports one; at end of file
\* recv reports 0 and leaves buf alone.
RecvPeek(s) ==
    IF s.queue # <<>> THEN IoResult("recv", TRUE, Head(s.queue), 1, "-")
    ELSE IF s.closed THEN IoResult("recv", TRUE, 0, 0, "-")
    ELSE IoResult("recv", FALSE, 0, -1, "WouldBlock")

\* Connection::peek for UnixStream: Ok(_) => Ok(buf[0]).
UnixPeek(s) ==
    LET r == RecvPeek(s) IN
    [s |-> s,
     r |-> IF r.ok THEN IoResult("peek", TRUE, r.val, r.n, "-")
           ELSE IoResult("peek", FALSE, 0, -1, r.err)]

\* A peek that takes the byte it reports off the socket.
UnixReadHead(s) ==
    IF s.queue # <<>>
    THEN [s |-> [s EXCEPT !.queue = Tail(@), !.got = Append(@, Head(s.queue))],
          r |-> IoResult("peek", TRUE, Head(s.queue), 1, "-")]
    ELSE [s |-> s,
          r |-> IF s.closed THEN IoResult("peek", TRUE, 0, 0, "-")
                ELSE IoResult("peek", FALSE, 0, -1, "WouldBlock")]

\* Connection::read for UnixStream: Read::read_exact of one byte.
UnixRead(s) ==
    IF s.queue # <<>>
    THEN [s |-> [s EXCEPT !.queue = Tail(@), !.got = Append(@, Head(s.queue))],
          r |-> IoResult("read", TRUE, Head(s.queue), 1, "-")]
    ELSE [s |-> s,
          r |-> IoResult("read", FALSE, 0, -1,
                         IF s.closed THEN "UnexpectedEof" ELSE "WouldBlock")]

\* Connection::poll_readable for UnixStream: the socket is made non-blocking
\* for one peek and blocking again; when the second set_nonblocking fails
\* (restored = FALSE) its error is returned and the flag stays set.
UnixPollReadable(s, restored) ==
    LET r == RecvPeek([s EXCEPT !.nonblocking = TRUE]) IN
    [s |-> [s EXCEPT !.nonblocking = ~restored],
     r |-> IF ~restored THEN IoResult("poll_readable", FALSE, 0, -1, "Io")
           ELSE IF r.ok THEN IoResult("poll_readable", TRUE, 0, r.n, "-")
           ELSE IoResult("poll_readable", TRUE, 0, -1, "Pending")]

\* impl Connection for &mut dyn Connection: (**self).method().
DynPeek(s) == UnixPeek(s)
DynRead(s) == UnixRead(s)
DynPollReadable(s, restored) == UnixPollReadable(s, restored)

Impls == {"UnixStream", "&mut dyn Connection"}

\* The call returns o.r and leaves the socket as o.s.
SockReturns(o, via) ==
    /\ sock' = [o.s EXCEPT !.last = [o.r EXCEPT !.via = via]]
    /\ UNCHANGED <<config, xfer, emu, no_ack_mode, tids, cmd, args, pc, res, status,
                   calls, conn, locals, acked, history>>

SockPeek ==
    /\ Returns(sock)
    /\ \E via \in Impls :
          SockReturns(IF via = "UnixStream" THEN UnixPeek(sock) ELSE DynPeek(sock), via)

SockRead ==
    /\ Returns(sock)
    /\ \E via \in Impls :
          SockReturns(IF via = "UnixStream" THEN UnixRead(sock) ELSE DynRead(sock), via)

SockPollReadable ==
    \E via \in Impls, restored \in BOOLEAN :
        SockReturns(IF via = "UnixStream" THEN UnixPollReadable(sock, restored)
                    ELSE DynPollReadable(sock, restored), via)

\* The peer sends a byte.
PeerSends ==
    /\ ~sock.closed
    /\ Len(sock.sent) < MaxSent
    /\ \E b \in ClientBytes :
          sock' = [sock EXCEPT !.queue = Append(@, b), !.sent = Append(@, b)]
    /\ UNCHANGED <<config, xfer, emu, no_ack_mode, tids, cmd, args, pc, res, status,
                   calls, conn, locals, acked, history>>

\* The peer closes the connection.
PeerCloses ==
    /\ ~sock.closed
    /\ sock' = [sock EXCEPT !.closed = TRUE]
    /\ UNCHANGED <<config, xfer, emu, no_ack_mode, tids, cmd, args, pc, res, status,
                   calls, conn, locals, acked, history>>

InitSock == InitOver({NoCaps}, {1024})

NextSock ==
    \/ SockPeek
    \/ SockRead
    \/ SockPollReadable
    \/ PeerSends
    \/ PeerCloses

SpecSock == InitSock /\ [][NextSock]_vars

\* C11: with extended mode, `vKill;pid` calls kill(Some(pid)) and `k` calls
\* kill(None), once; when the target answers true the reply is OK and the
\* session ends with Disconnect(Kill); when it answers false the reply is OK
\* and the session goes on to the next packet.
C11_KillWithExtendedMode ==
    (cmd \in {"k", "vKill"} /\ caps["extended_mode"] /\ pc # "idle") =>
        /\ Len(calls) = 1
        /\ calls[1].op = "kill"
        /\ cmd = "k" => calls[1].pid = NoPid
        /\ cmd = "vKill" => calls[1].pid \in Pids
        /\ calls[1].ret = "Terminate" =>
              /\ Reply = "OK" /\ status = Disconnect("Kill") /\ pc = "done"
              /\ ~ENABLED NextPacket
        /\ calls[1].ret = "KeepAlive" =>
              /\ Reply = "OK" /\ status = NeedsOK /\ pc = "returned"
              /\ ENABLED NextPacket

\* `vKill;2` was answered false by the target: the session is alive.
C11_Witness ==
    /\ cmd = "vKill" /\ caps["extended_mode"] /\ pc = "returned"
    /\ calls = <<Returned(KillCall(2), "KeepAlive")>>
    /\ Reply = "OK"

\* C12: the handler returns Disconnect only for `k` / `vKill` without extended
\* mode or with kill answering true (reason Kill), for `D` after OK was
\* written (reason Disconnect), and for a resume that stopped with Halted
\* (reason TargetHalted); a command that returns Handled or NeedsOK leaves
\* the session alive.
C12_DisconnectCases ==
    /\ status.k = "Disconnect" =>
          \/ /\ cmd \in {"k", "vKill"} /\ status.v = "Kill"
             /\ ~caps["extended_mode"] \/ (calls # <<>> /\ calls[1].ret = "Terminate")
          \/ cmd = "D" /\ status.v = "Disconnect" /\ Body(res) = "OK"
          \/ /\ cmd \in {"vCont", "c", "s"} /\ status.v = "TargetHalted"
             /\ stop_reason.r = "Halted"
    /\ status.k \in {"Handled", "NeedsOK"} => (pc = "returned" /\ ENABLED NextPacket)
    /\ pc = "done" => status.k \in {"Disconnect", "Err"}

\* `D` has ended a session that had handled other packets before it.
C12_Witness ==
    /\ cmd = "D" /\ pc = "done" /\ status = Disconnect("Disconnect")
    /\ Body(res) = "OK"
    /\ no_ack_mode /\ current_mem_tid = 2 /\ reported_mem = 2

\* C13: `Hg` with a concrete id sets current_mem_tid to it and keeps
\* current_resume_tid; `Hc` with a concrete id or All sets current_resume_tid
\* to it and keeps current_mem_tid; `Hg` or `Hc` with Any changes neither and
\* replies OK; `Hg` with All fails with PacketUnexpected and changes neither.
C13_ThreadSelection ==
    [][(pc = "idle" /\ cmd' \in {"Hg", "Hc"}) =>
          LET t == args'.thread IN
          /\ (cmd' = "Hg" /\ t.k = "WithID") =>
                (current_mem_tid' = t.id /\ UNCHANGED current_resume_tid)
          /\ (cmd' = "Hc" /\ t.k = "WithID") =>
                (current_resume_tid' = SelWithID(t.id) /\ UNCHANGED current_mem_tid)
          /\ (cmd' = "Hc" /\ t.k = "All") =>
                (current_resume_tid' = SelAll /\ UNCHANGED current_mem_tid)
          /\ t.k = "Any" =>
                (UNCHANGED tids /\ status' = NeedsOK /\ Reply' = "OK")
          /\ (cmd' = "Hg" /\ t.k = "All") =>
                (UNCHANGED tids /\ status' = Error("PacketUnexpected"))
          /\ t.k \in {"Any", "All", "WithID"}]_vars

\* `Hc` with thread 1 has returned after an earlier `Hg` had selected thread 2
\* for memory accesses.
C13_Witness ==
    /\ cmd = "Hc" /\ args.thread = IdWithID(1) /\ pc = "returned"
    /\ current_resume_tid = SelWithID(1) /\ current_mem_tid = 2

\* C14: a client that reads the description at offsets 0, len, 2*len, ... with
\* len >= 1 until a reply starts with `l` makes ceil(size / len) requests (one
\* for an empty description); every page before the last starts with `m` and
\* carries len bytes; the pages put together are the trimmed XML; a request at
\* or past the end is answered with `l` alone; an architecture without XML
\* makes the request fail with PacketUnexpected.
C14_XferRoundTrip ==
    LET t == Trim(xml)
        size == Len(t)
        n == Len(xfer.pages)
        asked == cmd = "qXferFeaturesRead" /\ pc # "idle"
    IN  /\ (asked /\ caps["target_description_xml"] /\ args.addr >= size) =>
              (Reply = "l" /\ status = Handled)
        /\ (asked /\ ~caps["target_description_xml"]) =>
              status = Error("PacketUnexpected")
        /\ \A i \in 1 .. n : (i < n \/ ~XferDone) =>
              xfer.pages[i] = [prefix |-> "m", n |-> xfer.len]
        /\ ~XferDone => (xfer.offset <= size /\ xfer.got = SubSeq(t, 1, xfer.offset))
        /\ XferDone =>
              /\ xfer.got = t
              /\ n = IF size = 0 THEN 1 ELSE (size + xfer.len - 1) \div xfer.len

\* A description of three bytes, two of them escaped on the wire, has been
\* read in chunks of two.
C14_Witness ==
    /\ xml = <<" ", "}", "*", "<">> /\ xfer.len = 2 /\ XferDone
    /\ xfer.pages = <<[prefix |-> "m", n |-> 2], [prefix |-> "l", n |-> 1]>>
    /\ xfer.got = <<"}", "*", "<">>

\* C15: without extended mode qAttached answers `1` with or without a pid; with
\* extended mode and the attached-pids record it answers the value recorded
\* for the pid, `1` when the pid is not recorded, and does not call the
\* target; with extended mode and no pid it fails with PacketUnexpected.
C15_QAttached ==
    (cmd = "qAttached" /\ pc # "idle") =>
        LET pid == args.id IN
        /\ ~caps["extended_mode"] =>
              (status = Handled /\ Reply = "1" /\ calls = <<>>)
        /\ (caps["extended_mode"] /\ pid = NoPid) =>
              (status = Error("PacketUnexpected") /\ res = <<>>)
        /\ (caps["extended_mode"] /\ FeatureAlloc /\ pid # NoPid) =>
              /\ status = Handled /\ calls = <<>>
              /\ pid \in DOMAIN attached_pids =>
                    Reply = IF attached_pids[pid] THEN "1" ELSE "0"
              /\ pid \notin DOMAIN attached_pids => Reply = "1"

\* Pid 1 is recorded as started by the stub, pid 2 is not recorded, and the
\* client has asked about pid 1.
C15_Witness ==
    /\ cmd = "qAttached" /\ pc = "returned" /\ caps["extended_mode"]
    /\ attached_pids = [p \in {1} |-> FALSE] /\ args.id = 1
    /\ Reply = "0"

RECURSIVE CommaList(_)
\* The ids of ts as p<FAKE_PID>.<tid>, with a comma between neighbours.
CommaList(ts) ==
    IF ts = <<>> THEN ""
    ELSE IF Len(ts) = 1 THEN ThreadIdStr(FAKE_PID, ts[1])
    ELSE CommaList(SubSeq(ts, 1, Len(ts) - 1)) \o "," \o ThreadIdStr(FAKE_PID, ts[Len(ts)])

\* C16: qfThreadInfo answers `m` and the whole list of thread ids, each as
\* p<FAKE_PID>.<tid>: the one id SINGLE_THREAD_TID for a single-thread target,
\* and for a multi-thread target the ids list_active_threads reported, in the
\* order of the callbacks, with commas between them only (unless the target
\* fails the listing, which ends the request with TargetError); qsThreadInfo
\* answers `l` in every state.
C16_ThreadListing ==
    /\ (cmd = "qfThreadInfo" /\ pc # "idle") =>
          IF ~caps["multithread"]
          THEN /\ status = Handled /\ calls = <<>>
               /\ Reply = "m" \o ThreadIdStr(FAKE_PID, SINGLE_THREAD_TID)
          ELSE /\ Len(calls) = 1 /\ calls[1].op = "list_active_threads"
               /\ status \in {Handled, Error("TargetError")}
               /\ status = Handled => Reply = "m" \o CommaList(calls[1].arg)
    /\ (cmd = "qsThreadInfo" /\ pc # "idle") => (status = Handled /\ Reply = "l")

\* A multi-thread target has listed thread 2 and then thread 1.
C16_Witness ==
    /\ cmd = "qfThreadInfo" /\ pc = "returned" /\ caps["multithread"]
    /\ calls = <<ListCall(<<2, 1>>)>>
    /\ Reply = "mp1.2,p1.1"

\* What `m addr,len` with a buffer of B bytes is said to do: ceil(len / B)
\* calls of read_addrs, the j-th for min(what is left, B) bytes at
\* addr + (j - 1) * B, and the lowercase hex of the len bytes from addr on,
\* in ascending order, as the reply.
MemReadAsClaimed ==
    LET addr == args.addr
        len == args.len
        B == args.buf
        k == (len + B - 1) \div B
    IN  /\ status = Handled
        /\ Len(calls) = k
        /\ \A j \in 1 .. k :
              /\ calls[j].op = "read_addrs"
              /\ calls[j].addr = addr + (j - 1) * B
              /\ calls[j].len = Min(len - (j - 1) * B, B)
        /\ Reply = HexBuf(MemData(addr, len))

\* An `m` whose address fits the architecture and whose reads the target has
\* all served.
MemReadServed ==
    /\ cmd = "m" /\ pc # "idle" /\ args.addr # TooWide
    /\ \A j \in 1 .. Len(calls) : calls[j].ret = "Ok"

\* C17 as stated: for every len >= 0 and every buffer size B >= 1 the read
\* makes ceil(len / B) calls over consecutive ranges and replies with the hex
\* of exactly len bytes.
C17_AsStated == MemReadServed => MemReadAsClaimed

\* C17: for every len >= 0 and every buffer size B >= 1, a read that ends at or
\* below the top of the address space (addr + len <= 2^w for addresses of w
\* bits) makes ceil(len / B) calls of read_addrs over the consecutive ranges at
\* addr, addr + B, ... of min(remaining, B) bytes and replies with the
\* lowercase hex of exactly len bytes in ascending address order.
C17_MemoryRead ==
    (MemReadServed /\ args.addr + args.len <= AddrSpace) => MemReadAsClaimed

\* `m1000,4` through a buffer of three bytes, over memory de ad be ef.
C17_Witness ==
    /\ cmd = "m" /\ pc = "returned" /\ args = MemArgs(4096, 4, 3)
    /\ Len(calls) = 2 /\ calls[2].addr = 4099 /\ calls[2].len = 1
    /\ Reply = "deadbeef"

\* The request now handled is a `P` for a register id the architecture does
\* not know, or a `T` for a thread that is not alive.
NotFound(c, a, callz) ==
    \/ c = "P" /\ a.id \notin KnownRegIds
    \/ /\ c = "T" /\ a.thread.k = "WithID"
       /\ IF caps["multithread"]
          THEN callz # <<>> /\ callz[1].ret = "Dead"
          ELSE a.thread.id # SINGLE_THREAD_TID

\* C18: `P` with a register id the architecture does not know returns
\* NonFatalError(22) without a call to the target, and `T` for a thread that
\* is not alive (single-thread target: any tid but SINGLE_THREAD_TID) returns
\* NonFatalError(1); each is answered with `E` and the code in hex, leaves
\* no_ack_mode, current_mem_tid and current_resume_tid as they were, and the
\* session goes on to the next packet.
C18_NonFatalErrors ==
    [][(pc = "idle" /\ NotFound(cmd', args', calls')) =>
          /\ cmd' = "P" => (status' = NonFatalError(22) /\ calls' = <<>>)
          /\ cmd' = "T" => status' = NonFatalError(1)
          /\ Reply' = "E" \o HexNum(status'.code)
          /\ UNCHANGED <<no_ack_mode, current_mem_tid, current_resume_tid>>
          /\ pc' = "returned" /\ ~conn_err']_vars

\* In no-ack mode, with thread 2 selected for memory accesses, a
\* single-thread target was asked whether thread 2 is alive.
C18_Witness ==
    /\ cmd = "T" /\ ~caps["multithread"] /\ args.thread = IdWithID(2)
    /\ status = NonFatalError(1) /\ Reply = "E1" /\ pc = "returned"
    /\ no_ack_mode /\ current_mem_tid = 2
    /\ ENABLED NextPacket

\* The example target runs a Continue of a program that raises no event, and
\* the byte a peek sees is 0x03.
InterruptPending ==
    /\ pc = "resume" /\ emu.program = "spin" /\ EmuAction = "Continue"
    /\ pending # <<>> /\ Head(pending) = INTERRUPT

InterruptReported ==
    /\ pc = "returned" /\ stop_reason.r = "GdbInterrupt"
    /\ status = Handled /\ Reply = "S05"

\* C19: while the example target executes a Continue in which no emulator
\* event occurs, a pending 0x03 leads to the target stopping with
\* GdbInterrupt and the server replying `S05`.
C19_InterruptStops == InterruptPending ~> InterruptReported

\* In a build whose arithmetic wraps, the pending 0x03 is always reported.
InterruptStopsWhenWrapping ==
    (InterruptPending /\ ~emu.checks) ~> InterruptReported

\* The interrupt of a spinning program has been reported.
C19_Witness ==
    /\ InterruptReported /\ emu.program = "spin" /\ cmd = "c"
    /\ pending # <<>> /\ Head(pending) = INTERRUPT

\* A step of the peer, as opposed to a call on the Connection.
PeerStep == sock'.sent # sock.sent \/ sock'.closed # sock.closed

\* A peek or a poll_readable leaves the pending input and what was read as
\* they were, and what was read, followed by what is pending, is what the
\* peer sent, in the order it was sent.
PeekKeepsInput ==
    /\ (~PeerStep /\ sock'.last.op \in {"peek", "poll_readable"}) =>
          (sock'.queue = sock.queue /\ sock'.got = sock.got)
    /\ sock'.got \o sock'.queue = sock'.sent

\* The read made now returns the byte the peek before it returned.
ReadReturnsPeeked ==
    (~PeerStep /\ sock'.last.op = "read") =>
        (sock'.last.ok /\ sock'.last.val = sock.last.val)

\* C20: on a UnixStream and on a `&mut dyn Connection`, peek and
\* poll_readable leave the pending input unchanged, a read that follows a
\* successful peek returns the byte the peek returned, and bytes are read in
\* the order they arrived.
C20_PeekNonDestructive ==
    [][/\ PeekKeepsInput
       /\ (sock.last.op = "peek" /\ sock.last.ok) => ReadReturnsPeeked]_vars

\* The same, for a peek to which recv reported a byte.
PeekOfAByteNonDestructive ==
    [][/\ PeekKeepsInput
       /\ (sock.last.op = "peek" /\ sock.last.ok /\ sock.last.n >= 1) =>
             ReadReturnsPeeked]_vars

\* Through the forwarder the second of three bytes has been read, after the
\* first, and the third is still pending.
C20_Witness ==
    /\ sock.last = [IoResult("read", TRUE, 36, 1, "-") EXCEPT !.via = "&mut dyn Connection"]
    /\ sock.got = <<INTERRUPT, 36>> /\ sock.queue = <<INTERRUPT>>

\* ------------------------------------------------ order of the evaluation
\* eval_breakpoint_bytecode is between its first and its last statement.
Evaluating == pc \in {"eval_regs", "eval_cond", "eval_cmd"}

\* The first bytes of a stop reply to a breakpoint stop are written.
T05Written == res # <<>> /\ res[1] = "T05"

\* C21: for a breakpoint stop whose bytecode the stub evaluates, the condition
\* bytecodes are evaluated before any command bytecode, command bytecodes are
\* evaluated only when the combined condition (condition.unwrap_or(true)) is
\* true, what they yield does not reach the reply, and no byte of the T05
\* reply is written while a condition or a command is still to be evaluated.
C21_EvalOrdering ==
    /\ pc \in {"eval_regs", "eval_cond"} => n_cmd = 0
    /\ (pc = "eval_cmd" \/ n_cmd > 0) => condition # "False"
    /\ Evaluating => res = <<>>
    /\ T05Written =>
          /\ pc \in {"returned", "done"}
          /\ res = StopReply(stop_reason)

\* A stop with two conditions, the second non-zero, and one command: the
\* reply is written after the three evaluations.
C21_Witness ==
    /\ T05Written /\ pc = "returned"
    /\ evals = <<"Zero", "NonZero">> /\ condition = "True"
    /\ n_cmd = 1
    /\ res = StopReply(stop_reason)

\* --------------------------------------------- the conditions are or-ed
\* Every condition bytecode of the stop was evaluated to a value.
AllSucceed(log) == \A i \in 1 .. Len(log) : log[i] \in {"Zero", "NonZero"}

\* Some condition bytecode of the stop evaluated to a non-zero value.
AnyNonZero(log) == \E i \in 1 .. Len(log) : log[i] = "NonZero"

\* The stop goes on to its commands and its reply.
StopKept == pc' = "eval_cmd" /\ UNCHANGED <<res, calls, skipped>>

\* C22: when every condition bytecode attached to the stopped address is
\* evaluated to a value, the stop is kept for its reply exactly when there is
\* no condition or one of them is non-zero, in whatever order the target
\* enumerates them, and is skipped otherwise; and a break stop that was
\* reported after such evaluations had no condition or a non-zero one.
C22_ConditionIsOr ==
    /\ [][(ConditionsEnded /\ AllSucceed(evals)) =>
             IF evals = <<>> \/ AnyNonZero(evals) THEN StopKept ELSE StopSkipped]_vars
    /\ [](  (T05Written /\ EvaluatesBytecode(caps) /\ AllSucceed(evals))
              => (evals = <<>> \/ AnyNonZero(evals)))

\* The first of two conditions was non-zero, the second zero, and the stop
\* was reported.
C22_Witness ==
    /\ T05Written /\ status = Handled
    /\ evals = <<"NonZero", "Zero">>
    /\ EvaluatesBytecode(caps)

\* ------------------------------------- non-fatal errors of the evaluation
\* The step in which eval_condition is handed a bytecode whose evaluation
\* fails with a non-fatal error, and the `O` packet goes out.
ConditionFailsNonFatal ==
    /\ pc = "eval_cond" /\ Len(evals') = Len(evals) + 1
    /\ evals'[Len(evals')] = "NonFatal"

\* Every condition bytecode of the stop failed with a non-fatal error.
NoneResolved(log) == log # <<>> /\ \A i \in 1 .. Len(log) : log[i] = "NonFatal"

\* The step in which read_registers fails with a non-fatal error.
RegistersFailNonFatal ==
    /\ pc = "eval_regs" /\ Len(calls') = Len(calls) + 1
    /\ calls'[Len(calls')].op = "read_registers"
    /\ calls'[Len(calls')].ret = "NonFatal"

\* C23: a non-fatal error of a condition bytecode puts out exactly one `O`
\* packet, while no byte of the stop reply is written, and leaves the combined
\* condition as it was; a stop none of whose conditions is resolved is kept
\* for its reply; and after a non-fatal error of read_registers the stop is
\* reported at once, no bytecode being evaluated.
C23_NonFatalEvaluation ==
    /\ [][ConditionFailsNonFatal =>
             /\ opkts' = opkts + 1
             /\ condition' = condition
             /\ res = <<>> /\ res' = <<>>
             /\ pc' = "eval_cond"]_vars
    /\ [][(ConditionsEnded /\ NoneResolved(evals)) => StopKept]_vars
    /\ [][RegistersFailNonFatal =>
             /\ pc' \in {"returned", "done"}
             /\ res' = StopReply(stop_reason) /\ status' = StopStatus(stop_reason)
             /\ evals' = <<>> /\ n_cmd' = 0 /\ opkts' = opkts]_vars

\* Both conditions failed with a non-fatal error: two `O` packets went out
\* and the stop, its condition unresolved, was reported.
C23_Witness ==
    /\ evals = <<"NonFatal", "NonFatal">>
    /\ opkts = 2 /\ condition = "None"
    /\ T05Written /\ status = Handled

\* ------------------------------------------ the `O` packet cannot be sent
\* Writing the `O` packet of a non-fatal error failed during this stop.
OWriteFailed ==
    \/ eval_err = "ConnectionWrite"
    \/ \E i \in 1 .. Len(evals) : evals[i] = "NonFatalWriteFails"

\* C24: once the transport has refused the `O` packet of a non-fatal
\* evaluation error, the request goes no further than the end of the
\* enumeration under way: it ends with ConnectionWrite, with no stop reply and
\* without the target being resumed again.
C24_OWriteErrorIsFatal ==
    OWriteFailed =>
        /\ pc \in {"eval_cond", "eval_cmd", "done"}
        /\ pc = "eval_cmd" => n_cmd > 0
        /\ pc = "done" => (status = Error("ConnectionWrite") /\ res = <<>>)

\* The `O` packet of a failing condition could not be written, a second
\* condition was zero, and the target runs again.
C24_Witness ==
    /\ evals = <<"NonFatalWriteFails", "Zero">>
    /\ pc = "resume" /\ skipped = 1
    /\ status = Running

\* -------------------------------------- targets that evaluate nothing here
\* The target has no breakpoint agent, or one that runs the bytecode itself.
NoStubExecutor ==
    \/ ~caps["breakpoints"] \/ ~caps["breakpoint_agent"]
    \/ ~caps["executor_gdbstub"]

\* The number of calls of `op` made for the request.
RECURSIVE CallsOf(_, _)
CallsOf(op, callz) ==
    IF callz = <<>> THEN 0
    ELSE (IF Head(callz).op = op THEN 1 ELSE 0) + CallsOf(op, Tail(callz))

\* C25: for a target without a breakpoint agent, or whose agent runs the
\* bytecode itself, no bytecode is enumerated or evaluated and no stop is
\* skipped: a SwBreak, HwBreak or Watch stop that do_vcont takes from resume is
\* reported with its T05 reply after exactly one call of resume.
C25_NoStubExecutorReports ==
    NoStubExecutor =>
        /\ ~Evaluating
        /\ evals = <<>> /\ n_cmd = 0 /\ opkts = 0 /\ skipped = 0
        /\ cmd \in {"c", "s", "vCont"} => CallsOf("read_registers", calls) = 0
        /\ IsBreak(stop_reason) =>
              /\ pc = "returned" /\ status = Handled
              /\ T05Written /\ res = StopReply(stop_reason)
              /\ CallsOf("resume", calls) = 1
              /\ CallsOf("read_registers", calls) = 0

\* A target whose agent runs the bytecode itself stopped on a breakpoint of
\* thread 2, and the stop was reported after one resume.
C25_Witness ==
    /\ BreakpointAgent(caps) /\ ~caps["executor_gdbstub"]
    /\ stop_reason.r = "SwBreak" /\ stop_reason.tid = 2
    /\ T05Written /\ pc = "returned"
    /\ CallsOf("resume", calls) = 1 /\ Len(calls) = 1

\* ------------------------------------------- a peek fails during a resume
\* Action lists of a vCont: well-formed ones, and ones the iterator objects to.
PeekLists ==
    SessionLists \cup
    {<<Malformed, VContAction("Continue", NoThread)>>,
     <<VContAction("Step", IdWithID(2)), VContAction("Continue", IdAny)>>}

InitPeek == InitOver(PlainCaps, {1024})

NextPeek ==
    \/ HandleVCont(PeekLists)
    \/ HandleC
    \/ ConnFail
    \/ TargetPolls
    \/ TargetTakesAction
    \/ TargetReturns

\* One resume request over a transport that may break while the target runs.
SpecPeek == InitPeek /\ [][NextPeek]_vars

\* The last check_gdb_interrupt of this resume found the transport broken.
PeekFailed == last_poll /\ ConnPeek(pending, conn_err).val = PeekErr

\* The step in which resume returns Ok with a stop reason.
ResumeReturnsOk == pc = "resume" /\ pc' # "resume" /\ status' # Error("TargetError")

StopsInTheEnd ==
    IF skipped + 1 < MaxResumes THEN Stops ELSE {sr \in Stops : ~IsBreak(sr)}

TargetProducesStop ==
    /\ \E ok \in BOOLEAN, sr \in StopsInTheEnd : ResumeReturns(ok, sr)
    /\ UNCHANGED outside

InitLoop == InitOver(AgentCaps, {1024})

NextLoop ==
    \/ HandleVCont(SessionLists)
    \/ HandleC
    \/ HandleS
    \/ TargetTakesAction
    \/ TargetProducesStop
    \/ EvalReadsRegisters
    \/ EvalConditionStep(CondOutcomes)
    \/ EvalConditionsEnd(TRUE)
    \/ EvalCommandStep(CmdOutcomes)
    \/ EvalCommandsEnd(TRUE)

\* One resume request: the target returns from every resume, and each call
\* do_vcont makes on it returns.
SpecLoop ==
    /\ InitLoop /\ [][NextLoop]_vars
    /\ WF_vars(TargetProducesStop)
    /\ WF_vars(EvalReadsRegisters)
    /\ WF_vars(EvalConditionsEnd(TRUE))
    /\ WF_vars(EvalCommandsEnd(TRUE))

\* do_vcont is running, and it has returned.
InDoVCont == pc = "resume" \/ Evaluating
VContEnded == pc \in {"returned", "done"}

\* The step in which a breakpoint stop is skipped.
SkipsStop == Evaluating /\ pc' = "resume"

\* C27: do_vcont returns only with an error or with the one reply to the
\* stop it took from resume; a skipped stop writes nothing and is followed by
\* exactly one more call of resume, so that resume has been called once more
\* than stops were skipped; and with a target that in the end produces a stop
\* that is not skipped, a request that has resumed the target returns.
C27_LoopTerminates ==
    /\ [][(InDoVCont /\ VContEnded') =>
             \/ status'.k = "Err"
             \/ /\ stop_reason' # NoStop
                /\ res' = StopReply(stop_reason')]_vars
    /\ [][SkipsStop =>
             /\ res = <<>> /\ res' = <<>>
             /\ skipped' = skipped + 1
             /\ Len(calls') = Len(calls) + 1
             /\ calls'[Len(calls')].op = "resume"]_vars
    /\ [](InDoVCont => CallsOf("resume", calls) = skipped + 1)
    /\ (pc = "resume") ~> VContEnded

\* A first stop was skipped, the target was resumed a second time, and the
\* request returned with the reply to a step that ended.
C27_Witness ==
    /\ skipped = 1 /\ CallsOf("resume", calls) = 2
    /\ pc = "returned" /\ status = Handled
    /\ stop_reason.r = "DoneStep" /\ res = <<"S05">>

\* ------------------------------------------------ what a command may change
\* The step in which the handler of `name` is entered.
Enters(name) == pc = "idle" /\ cmd' = name

\* The step in which do_vcont takes a SwBreak, HwBreak or Watch stop from
\* resume.
StopsOnBreak ==
    /\ pc = "resume" /\ cmd \in {"vCont", "c", "s"}
    /\ IsBreak(stop_reason')

\* The commands that change none of the three fields.
FrameCmds ==
    {"qSupported", "qXferFeaturesRead", "?", "qAttached", "g", "G", "m", "M",
     "p", "P", "k", "vKill", "D", "vCont?", "qfThreadInfo", "qsThreadInfo", "T"}

\* C28: no_ack_mode is changed by QStartNoAckMode alone, current_mem_tid by
\* Hg and by a resume that stops on SwBreak, HwBreak or Watch alone,
\* current_resume_tid by Hc and by such a resume alone; each of the other
\* commands leaves the three as they were, whatever it returns.
C28_SessionFrame ==
    [][/\ no_ack_mode' # no_ack_mode => Enters("QStartNoAckMode")
       /\ current_mem_tid' # current_mem_tid => (Enters("Hg") \/ StopsOnBreak)
       /\ current_resume_tid' # current_resume_tid => (Enters("Hc") \/ StopsOnBreak)
       /\ (\E name \in FrameCmds : Enters(name)) =>
             UNCHANGED <<no_ack_mode, current_mem_tid, current_resume_tid>>]_vars

\* After Hg and Hc chose thread 2 and no-ack mode was entered, a read of
\* thread 2's registers failed and left the three fields alone.
C28_Witness ==
    /\ cmd = "g" /\ pc = "returned" /\ status = NonFatalError(1)
    /\ no_ack_mode
    /\ current_mem_tid = 2 /\ current_resume_tid = SelWithID(2)

\* ------------------------------------------- selectors after a skipped stop
\* The selectors a client that saw every reply takes to be in force when no
\* `H` packet was sent: those of the last T05 reply, or the initial ones.
SelectedMem == IF reported_mem # 0 THEN reported_mem ELSE SINGLE_THREAD_TID
SelectedResume == IF reported_resume # 0 THEN SelWithID(reported_resume) ELSE SelAll

\* C29: a request that skipped a breakpoint stop and then ended with S05 has
\* sent no T05 reply and leaves the two thread selectors as they were before
\* it: those of the last T05 reply, or the initial ones.
C29_SkippedStopKeepsSelectors ==
    (pc = "returned" /\ skipped > 0 /\ res = <<"S05">>) =>
        /\ current_mem_tid = SelectedMem
        /\ current_resume_tid = SelectedResume

\* A stop on thread 2 was skipped, the request ended with S05, and both
\* selectors name thread 2 though no T05 reply was ever sent.
C29_Witness ==
    /\ pc = "returned" /\ skipped = 1 /\ res = <<"S05">>
    /\ reported_mem = 0 /\ reported_resume = 0
    /\ current_mem_tid = 2 /\ current_resume_tid = SelWithID(2)

\* ---------------------------------------------- resuming on a bad request
\* The action list holds an action the iterator objects to: a malformed one,
\* a resume with a signal, or one for the thread id Any.
HasInvalidAction(acts) ==
    \E i \in 1 .. Len(acts) :
        \/ ~acts[i].ok
        \/ acts[i].kind \in {"ContinueWithSig", "StepWithSig"}
        \/ acts[i].thread.k = "Any"

\* C30: a vCont whose action list holds a malformed action, a resume with a
\* signal or an action for the thread id Any never has the target's resume
\* called.
C30_NoResumeOnInvalid ==
    (cmd = "vCont" /\ HasInvalidAction(base_actions)) =>
        CallsOf("resume", calls) = 0

\* A single-thread target was resumed with the Continue that follows a
\* malformed action, and the request then ended with PacketParse.
C30_Witness ==
    /\ ~caps["multithread"] /\ cmd = "vCont"
    /\ base_actions = <<Malformed, VContAction("Continue", NoThread)>>
    /\ pc = "done" /\ status = Error("PacketParse")
    /\ CallsOf("resume", calls) = 1
    /\ calls[1].arg = <<Taken(NoThread, "Continue")>>

\* ------------------------------------------ the actions of a second round
\* Well-formed action lists of one and of two actions.
RebuildLists ==
    {<<VContAction("Step", NoThread)>>, <<VContAction("Continue", NoThread)>>,
     <<VContAction("Step", IdWithID(1)), VContAction("Continue", NoThread)>>,
     <<VContAction("Continue", IdWithID(2)), VContAction("Step", IdWithID(1))>>}

InitRebuild == InitOver(AgentCaps, {1024})

NextRebuild ==
    \/ HandleVCont(RebuildLists)
    \/ HandleC
    \/ HandleS
    \/ TargetTakesAction
    \/ TargetReturns
    \/ EvalReadsRegisters
    \/ EvalConditionStep({"Zero", "NonZero"})
    \/ EvalConditionsEnd(FALSE)
    \/ EvalCommandStep({"Ok"})
    \/ EvalCommandsEnd(FALSE)

\* One resume request with well-formed actions, on a target whose breakpoint
\* conditions are evaluated by the stub.
SpecRebuild == InitRebuild /\ [][NextRebuild]_vars

\* What a well-formed action list hands over, action by action.
AsTaken(acts) ==
    [i \in 1 .. Len(acts) |->
        Taken(IF acts[i].thread.k = "WithID" THEN SelWithID(acts[i].thread.id)
              ELSE SelAll,
              acts[i].kind)]

\* What a call of resume may have been handed of the list `acts`: the
\* single-thread API its first action, the multi-thread API the actions the
\* target has pulled so far, from the first on.
HandedFrom(acts, c) ==
    IF caps["multithread"]
    THEN Len(c.arg) <= Len(acts) /\ c.arg = SubSeq(AsTaken(acts), 1, Len(c.arg))
    ELSE c.arg = <<Taken(NoThread, acts[1].kind)>>

\* The step in which the loop goes round after a stop whose condition is
\* false.
GoesRound ==
    /\ pc = "eval_cond" /\ condition = "False"
    /\ pc' # "eval_cond"

\* C31: the action list of the request stays as it was parsed while do_vcont
\* runs; a round of the loop after a skipped stop calls resume once more, with
\* an iterator over the list that starts from its first action (for a
\* single-thread target: with the same first action as the first round); and
\* every call of resume is handed actions of that list from the first on.
C31_ActionsRebuilt ==
    /\ [][InDoVCont => base_actions' = base_actions]_vars
    /\ [][GoesRound =>
             /\ pc' = "resume"
             /\ Len(calls') = Len(calls) + 1
             /\ calls'[Len(calls')].op = "resume"
             /\ IF caps["multithread"]
                THEN it' = 0 /\ calls'[Len(calls')].arg = <<>>
                ELSE calls'[Len(calls')].arg = calls[1].arg]_vars
    /\ [](InDoVCont =>
             \A k \in 1 .. Len(calls) :
                 calls[k].op = "resume" => HandedFrom(base_actions, calls[k]))

\* A multi-thread target took both actions of a vCont in the first round,
\* its stop was skipped, and it has taken both again in the second.
C31_Witness ==
    /\ caps["multithread"] /\ cmd = "vCont" /\ pc = "resume" /\ skipped = 1
    /\ Len(base_actions) = 2 /\ Len(calls) = 3
    /\ calls[1].arg = AsTaken(base_actions)
    /\ calls[3].op = "resume" /\ calls[3].arg = calls[1].arg

\* -------------------------------------------------- one body for a command
\* A handler has returned.
HandlerReturned == pc \in {"returned", "done"}

\* The commands whose handler may return NeedsOK, and when kill does.
NeedsOKCmds == {"QStartNoAckMode", "G", "M", "P", "Hg", "Hc", "T", "k", "vKill"}
KillKeptAlive ==
    /\ caps["extended_mode"]
    /\ calls # <<>> /\ calls[Len(calls)].ret = "KeepAlive"

\* The handler wrote nothing and did not ask for `OK`: `p` that read no
\* register (its id is not one of the architecture's), and kill without
\* extended mode.
EmptyBodyAsStated ==
    \/ cmd = "p" /\ calls = <<>>
    \/ cmd \in {"k", "vKill"} /\ ~caps["extended_mode"]

\* What a handler that returned NeedsOK, and one that returned Handled or
\* Disconnect, has written, given the cases `empty` in which the second
\* wrote nothing.
OneBody(empty) ==
    HandlerReturned =>
        /\ status.k = "NeedsOK" =>
              /\ res = <<>>
              /\ cmd \in NeedsOKCmds
              /\ cmd \in {"k", "vKill"} => KillKeptAlive
        /\ status.k \in {"Handled", "Disconnect"} =>
              /\ cmd # "QStartNoAckMode"
              /\ Body(res) = "" => empty

====
